---- MODULE Spec2Model ----
(***************************************************************************)
(* The interactive conversation driver of the Vertesia agent CLI           *)
(* (commands/conversation.ts: startInteractiveConversation) together with  *)
(* the agent backend it talks to.  The backend is the environment: it      *)
(* appends timestamped messages to the run's message log, a streaming      *)
(* call delivers the messages newer than the cursor `since`, in order,     *)
(* until the callback ends the call, the backend closes the stream or the  *)
(* call rejects.  Driver and backend read the same clock `now`.            *)
(***************************************************************************)
EXTENDS Integers, Sequences, FiniteSets, TLC

(* ------------------------------ bounds --------------------------------- *)
\* the clock runs over 1..MaxTime
MaxTime == 3
\* messages the backend produces in one conversation
MaxMsgs == 3
\* streaming calls of one conversation (the loop itself is unbounded)
MaxStreams == 3
\* rejected attempts within one prompt
MaxAttempts == 1

(* ------------------------- AgentMessageType ---------------------------- *)
QUESTION == "question"
ERROR == "error"
COMPLETE == "complete"
IDLE == "idle"
REQUEST_INPUT == "request_input"
\* an informational kind of the enumeration, and a value outside of it
ANSWER == "answer"
UNKNOWN == "x-unknown"
MessageTypes == {QUESTION, ERROR, COMPLETE, IDLE, REQUEST_INPUT, ANSWER, UNKNOWN}
\* what the backend may send: every kind with a text, and a kind of each of the
\* callback's three cases (no exit, "input", "done") with an empty (falsy) text
Messages ==
    {[type |-> t, message |-> "hi"] : t \in MessageTypes}
        \cup {[type |-> t, message |-> ""] : t \in {ANSWER, IDLE, COMPLETE}}

\* the handles executeAsync may return
RunHandles ==
    {[runId |-> "r1", workflowId |-> "w1"], [runId |-> "r2", workflowId |-> "w2"]}
NoRun == [runId |-> "-", workflowId |-> "-"]

\* lines the user may type at the prompt, as sequences of characters
UserInputs == {<< >>, <<" ", "\t">>, <<"o", "k">>, <<" ", "y">>}

VARIABLES
    pc,                 \* where the driver is: "init", "executing", "streaming",
                        \* "prompting", "signalling", "done", "aborted", "error"
    now,                \* the clock (Date.now(), and the backend's timestamps)
    log,                \* the messages the backend has produced for the run
    run,                \* the RunHandle returned by executeAsync
    since,              \* the cursor
    conversationActive, \* the loop flag
    pos,                \* streaming call in flight: next log index to look at
    streamEndReason,    \* streaming call in flight: what exitFn was given
    delivered,          \* the callback's invocations: streaming call, log index
    rendered,           \* log indices of the messages passed to formatMessage
    calls,              \* every backend call issued, in order
    inFlight,           \* indices in calls of the calls not yet settled
    returns,            \* how each streaming call ended, in order
    prompts,            \* number of prompts opened
    attempts,           \* the lines validate rejected in the prompt now open
    accepted,           \* the lines the prompt accepted, in order
    completed,          \* "Conversation completed" was printed
    errors,             \* the prefixes printed to the error stream, in order
    exitCode            \* process.exitCode

vars == <<pc, now, log, run, since, conversationActive, pos, streamEndReason,
          delivered, rendered, calls, inFlight, returns, prompts, attempts,
          accepted, completed, errors, exitCode>>

\* the message renderer (transformStoreLinks, formatMessage) taken on its own
VARIABLES
    site,               \* process.env.VERTESIA_ENVIRONMENT
    message,            \* the text handed to the function, a sequence of characters
    args,               \* the other arguments of formatMessage: type and timestamp
    transformed,        \* what transformStoreLinks returned: << >> until it has
    stdout              \* what formatMessage printed, one entry per console.log

renderVars == <<site, message, args, transformed, stdout>>

\* the release-notes generator's reduceContentToTokenLimit taken on its own
VARIABLES
    issuesJson,         \* the issues argument: the array the JSON text encodes
    diffJson,           \* the diffs argument: the array the JSON text encodes
    targetTokenLimit,   \* the limit argument
    reduced             \* what the function returned: << >> until it has

reduceVars == <<issuesJson, diffJson, targetTokenLimit, reduced>>

\* the release-notes generator's fetchIssues and its cache file, over many runs
VARIABLES
    clock,              \* Date.now(), in hours
    cacheFile,          \* issue-cache.json in the output directory
    fetchPc,            \* "idle", "fetching" (cache loaded), "returned"
    request,            \* owner/repo and issueNumbers of the run
    cache,              \* what loadIssueCache returned to the run
    issuesOut,          \* the issues array of the run
    issuesToFetch,      \* the numbers the run asks GitHub for
    requested           \* the numbers the run has asked GitHub for

issuesVars == <<clock, cacheFile, fetchPc, request, cache, issuesOut, issuesToFetch,
                requested>>

\* no cache file; also what loadIssueCache returns for null
NoFile == [exists |-> FALSE, repository |-> "", timestamp |-> 0, issues |-> {}]

\* fetchIssues at rest, before the first run
IssuesIdle ==
    /\ clock = 0
    /\ cacheFile = NoFile
    /\ fetchPc = "idle"
    /\ request = [repository |-> "", issueNumbers |-> {}]
    /\ cache = NoFile
    /\ issuesOut = {}
    /\ issuesToFetch = {}
    /\ requested = {}

\* the AWS Bedrock set-up script, configureBedrockEnvironment
VARIABLES
    bedrockPc,          \* the await the script is at, or "done", "failed", "exited"
    bedrockArgs,        \* roleName, and whether the OIDC provider existed at the start
    bedrockCalls,       \* every request sent to Vertesia and to AWS IAM, in order
    iam,                \* the AWS account: OIDC providers and roles
    environments,       \* the Vertesia execution environments
    bedrockLocals       \* account, project, providerArn, environment, roleArn

bedrockVars == <<bedrockPc, bedrockArgs, bedrockCalls, iam, environments, bedrockLocals>>

NoLocals == [account |-> "", project |-> "", providerArn |-> "", environment |-> "",
             roleArn |-> ""]

\* the script not started, on an empty AWS account
BedrockIdle ==
    /\ bedrockPc = "start"
    /\ bedrockArgs = [roleName |-> "r1", providerExisted |-> FALSE]
    /\ bedrockCalls = << >>
    /\ iam = [providers |-> {}, roles |-> {}]
    /\ environments = {}
    /\ bedrockLocals = NoLocals

\* the GCP Vertex AI set-up script: getOrCreatePool, getOrCreateProvider and
\* waitForOperation
VARIABLES
    gcpPc,              \* where the get-or-create function is, or "returned", "failed"
    gcpResource,        \* "pool" for getOrCreatePool, "provider" for getOrCreateProvider
    statusGlobal,       \* whether the host defines a global named status
    gcpCloud,           \* GCP: whether the resource exists, and the create operation
    gcpRequests,        \* every request sent through gcp.request, in order
    gcpWait,            \* waitForOperation's tries, pause, status, and its polls
    gcpResult,          \* the returned resource, or the thrown error
    gcpDone             \* waitForOperation's return value, << >> before it returns

gcpVars == <<gcpPc, gcpResource, statusGlobal, gcpCloud, gcpRequests, gcpWait,
             gcpResult, gcpDone>>

NoWait == [tries |-> 0, pause |-> 0, status |-> FALSE, polls |-> 0]
NoResult == [returned |-> "", thrown |-> ""]

\* neither function called
GcpIdle ==
    /\ gcpPc = "lookup"
    /\ gcpResource = "pool"
    /\ statusGlobal = FALSE
    /\ gcpCloud = [exists |-> FALSE, operation |-> "none"]
    /\ gcpRequests = << >>
    /\ gcpWait = NoWait
    /\ gcpResult = NoResult
    /\ gcpDone = << >>

\* the start of the CLI: initializeClient, then the backend and the renderer
VARIABLES
    clientPc,           \* "init", "running" once the client exists, "exited"
    processEnv,         \* process.env: VERTESIA_API_KEY and VERTESIA_ENVIRONMENT
    client,             \* the VertesiaClient's apikey and site, NoClient before
    clientExit,         \* the process exit code, 0 while it runs
    backendCalls,       \* how many backend calls were made
    sitesRead           \* the site values transformStoreLinks has read

clientVars == <<clientPc, processEnv, client, clientExit, backendCalls, sitesRead>>

NoClient == [apikey |-> "undefined", site |-> "undefined"]

\* the CLI not started, nothing set in the environment
ClientIdle ==
    /\ clientPc = "init"
    /\ processEnv = [VERTESIA_API_KEY |-> "undefined", VERTESIA_ENVIRONMENT |-> "undefined"]
    /\ client = NoClient
    /\ clientExit = 0
    /\ backendCalls = 0
    /\ sitesRead = {}

\* two runs of startInteractiveConversation on the same replies and inputs,
\* one started with interactive = true and one with interactive = false
VARIABLES
    twinOn,             \* the run with interactive = true
    twinOff,            \* the run with interactive = false
    twinNow             \* the clock both runs read

twinVars == <<twinOn, twinOff, twinNow>>

\* a run of startInteractiveConversation at its executeAsync request
Started(interactive) ==
    [pc |-> "executeAsync",
     start |-> [op |-> "executeAsync", interactive |-> interactive],
     run |-> NoRun, since |-> 0, trace |-> << >>, exitCode |-> 0,
     completed |-> FALSE]

\* both runs at their start
TwinIdle ==
    /\ twinOn = Started(TRUE)
    /\ twinOff = Started(FALSE)
    /\ twinNow = 0

\* the end of the release-notes generator's main: generate, save, report
VARIABLES
    notesPc,            \* "generate", "save", "report", "done", "exited"
    notesOptions,       \* outputDir, startTag, endTag
    notesDisk,          \* the files on disk: path -> content, "" where there is none
    notesResult,        \* result: "undefined" or the generated text
    notesWritten,       \* the paths written in this run
    notesStdout,        \* the lines printed with console.log
    notesStderr,        \* the lines printed with console.error
    notesExit           \* the process exit code, 0 unless process.exit(1)

notesVars == <<notesPc, notesOptions, notesDisk, notesResult, notesWritten,
               notesStdout, notesStderr, notesExit>>

\* main not yet at the generation step, nothing on disk
NotesIdle ==
    /\ notesPc = "generate"
    /\ notesOptions = [outputDir |-> "out", startTag |-> "v1", endTag |-> "v2"]
    /\ notesDisk = << >>
    /\ notesResult = "undefined"
    /\ notesWritten = {}
    /\ notesStdout = << >>
    /\ notesStderr = << >>
    /\ notesExit = 0

\* the invoice line-item extraction script, from the status loop on
VARIABLES
    pdfPc,              \* "poll", "adapt", "results", "done", "exited"
    pdfRequests,        \* the requests sent from the status loop on, in order
    pdfStatuses,        \* the answers of getStatus, in order
    pdfStdout,          \* the progress lines written
    pdfExit             \* the process exit code, 0 while the script runs

pdfVars == <<pdfPc, pdfRequests, pdfStatuses, pdfStdout, pdfExit>>

\* the analysis started, the status loop not yet entered
PdfIdle ==
    /\ pdfPc = "poll"
    /\ pdfRequests = << >>
    /\ pdfStatuses = << >>
    /\ pdfStdout = << >>
    /\ pdfExit = 0

\* the variables of the other programs, which the driver leaves alone
otherVars == <<renderVars, reduceVars, issuesVars, bedrockVars, gcpVars, clientVars, twinVars, notesVars, pdfVars>>

\* the reducer at rest
ReduceIdle ==
    /\ issuesJson = << >>
    /\ diffJson = << >>
    /\ targetTokenLimit = 0
    /\ reduced = << >>

\* the renderer at rest
RenderIdle ==
    /\ site = "undefined"
    /\ message = << >>
    /\ args = [type |-> ANSWER, timestamp |-> 0]
    /\ transformed = << >>
    /\ stdout = << >>

(* ------------------------------ helpers -------------------------------- *)
\* the white space String.prototype.trim strips, as far as a typed line holds it
IsSpace(c) == c \in {" ", "\t"}

RECURSIVE TrimStart(_)
TrimStart(s) ==
    IF s # << >> /\ IsSpace(Head(s)) THEN TrimStart(Tail(s)) ELSE s

RECURSIVE TrimEnd(_)
TrimEnd(s) ==
    IF s # << >> /\ IsSpace(s[Len(s)]) THEN TrimEnd(SubSeq(s, 1, Len(s) - 1)) ELSE s

\* String.prototype.trim
Trim(s) == TrimEnd(TrimStart(s))

\* Validate with a fault: the line is tested without being trimmed
ValidateUntrimmed(input) == input # << >>

\* validate: (input) => !!input.trim() || "Please enter a message"
Validate(input) == Trim(input) # << >>

\* ExitReasonFor with a fault: an ERROR message ends the call as COMPLETE does
ExitReasonForErrorEnds(type) ==
    IF type = IDLE \/ type = REQUEST_INPUT THEN "input"
    ELSE IF type = COMPLETE \/ type = ERROR THEN "done"
    ELSE "none"

\* ExitReasonFor with a fault: REQUEST_INPUT dropped from the test
ExitReasonForIdleOnly(type) ==
    IF type = IDLE THEN "input"
    ELSE IF type = COMPLETE THEN "done"
    ELSE "none"

\* the callback's decision: the reason given to exitFn, "none" when it is not called
ExitReasonFor(type) ==
    IF type = IDLE \/ type = REQUEST_INPUT THEN "input"
    ELSE IF type = COMPLETE THEN "done"
    ELSE "none"

\* if (item.message): a non-empty text is rendered
Renders(item) == item.message # ""

\* the log indices the streaming call in flight has still to deliver
Pending == {i \in pos..Len(log) : log[i].timestamp > since}

StreamCalls == SelectSeq(calls, LAMBDA c : c.op = "streamMessages")
SignalCalls == SelectSeq(calls, LAMBDA c : c.op = "sendSignal")

StreamCall(r, s) == [op |-> "streamMessages", runId |-> r.runId, since |-> s]
\* SignalCall with a fault: workflowId and runId passed in the wrong order
SignalCallSwapped(r, text) ==
    [op |-> "sendSignal", workflowId |-> r.runId, runId |-> r.workflowId,
     signal |-> "UserInput", message |-> text]
SignalCall(r, text) ==
    [op |-> "sendSignal", workflowId |-> r.workflowId, runId |-> r.runId,
     signal |-> "UserInput", message |-> text]

\* the calls in flight once the awaited call `op` has settled
Settled(op) == {i \in inFlight : calls[i].op # op}

(* ------------------------------- Init ---------------------------------- *)
InitialSince == 0

DriverInit ==
    /\ pc = "init"
    /\ now = 1
    /\ log = << >>
    /\ run = NoRun
    /\ since = InitialSince
    /\ conversationActive = FALSE
    /\ pos = 1
    /\ streamEndReason = "none"
    /\ delivered = << >>
    /\ rendered = << >>
    /\ calls = << >>
    /\ inFlight = {}
    /\ returns = << >>
    /\ prompts = 0
    /\ attempts = << >>
    /\ accepted = << >>
    /\ completed = FALSE
    /\ errors = << >>
    /\ exitCode = 0

(* ------------------------------ frames --------------------------------- *)
\* for each program taken on its own: the variables of all the others, and
\* the others at rest
besidesRender == <<vars, reduceVars, issuesVars, bedrockVars, gcpVars, clientVars, twinVars, notesVars, pdfVars>>
IdleBesidesRender ==
    /\ DriverInit
    /\ ReduceIdle
    /\ IssuesIdle
    /\ BedrockIdle
    /\ GcpIdle
    /\ ClientIdle
    /\ TwinIdle
    /\ NotesIdle
    /\ PdfIdle

besidesReduce == <<vars, renderVars, issuesVars, bedrockVars, gcpVars, clientVars, twinVars, notesVars, pdfVars>>
IdleBesidesReduce ==
    /\ DriverInit
    /\ RenderIdle
    /\ IssuesIdle
    /\ BedrockIdle
    /\ GcpIdle
    /\ ClientIdle
    /\ TwinIdle
    /\ NotesIdle
    /\ PdfIdle

besidesIssues == <<vars, renderVars, reduceVars, bedrockVars, gcpVars, clientVars, twinVars, notesVars, pdfVars>>
IdleBesidesIssues ==
    /\ DriverInit
    /\ RenderIdle
    /\ ReduceIdle
    /\ BedrockIdle
    /\ GcpIdle
    /\ ClientIdle
    /\ TwinIdle
    /\ NotesIdle
    /\ PdfIdle

besidesBedrock == <<vars, renderVars, reduceVars, issuesVars, gcpVars, clientVars, twinVars, notesVars, pdfVars>>
IdleBesidesBedrock ==
    /\ DriverInit
    /\ RenderIdle
    /\ ReduceIdle
    /\ IssuesIdle
    /\ GcpIdle
    /\ ClientIdle
    /\ TwinIdle
    /\ NotesIdle
    /\ PdfIdle

besidesGcp == <<vars, renderVars, reduceVars, issuesVars, bedrockVars, clientVars, twinVars, notesVars, pdfVars>>
IdleBesidesGcp ==
    /\ DriverInit
    /\ RenderIdle
    /\ ReduceIdle
    /\ IssuesIdle
    /\ BedrockIdle
    /\ ClientIdle
    /\ TwinIdle
    /\ NotesIdle
    /\ PdfIdle

besidesClient == <<vars, renderVars, reduceVars, issuesVars, bedrockVars, gcpVars, twinVars, notesVars, pdfVars>>
IdleBesidesClient ==
    /\ DriverInit
    /\ RenderIdle
    /\ ReduceIdle
    /\ IssuesIdle
    /\ BedrockIdle
    /\ GcpIdle
    /\ TwinIdle
    /\ NotesIdle
    /\ PdfIdle

besidesTwin == <<vars, renderVars, reduceVars, issuesVars, bedrockVars, gcpVars, clientVars, notesVars, pdfVars>>
IdleBesidesTwin ==
    /\ DriverInit
    /\ RenderIdle
    /\ ReduceIdle
    /\ IssuesIdle
    /\ BedrockIdle
    /\ GcpIdle
    /\ ClientIdle
    /\ NotesIdle
    /\ PdfIdle

besidesNotes == <<vars, renderVars, reduceVars, issuesVars, bedrockVars, gcpVars, clientVars, twinVars, pdfVars>>
IdleBesidesNotes ==
    /\ DriverInit
    /\ RenderIdle
    /\ ReduceIdle
    /\ IssuesIdle
    /\ BedrockIdle
    /\ GcpIdle
    /\ ClientIdle
    /\ TwinIdle
    /\ PdfIdle

besidesPdf == <<vars, renderVars, reduceVars, issuesVars, bedrockVars, gcpVars, clientVars, twinVars, notesVars>>
IdleBesidesPdf ==
    /\ DriverInit
    /\ RenderIdle
    /\ ReduceIdle
    /\ IssuesIdle
    /\ BedrockIdle
    /\ GcpIdle
    /\ ClientIdle
    /\ TwinIdle
    /\ NotesIdle

Init ==
    /\ DriverInit
    /\ RenderIdle
    /\ ReduceIdle
    /\ IssuesIdle
    /\ BedrockIdle
    /\ GcpIdle
    /\ ClientIdle
    /\ TwinIdle
    /\ NotesIdle
    /\ PdfIdle

(* ---------------------------- environment ------------------------------ *)
\* the run exists and the driver has not returned
Running == pc \in {"streaming", "prompting", "signalling"}

\* time passes while the conversation runs
Tick ==
    /\ Running
    /\ now < MaxTime
    /\ now' = now + 1
    /\ UNCHANGED inFlight
    /\ UNCHANGED <<pc, log, run, since, conversationActive, pos, streamEndReason,
                   delivered, rendered, calls, returns, prompts, attempts,
                   accepted, completed, errors, exitCode>>
    /\ UNCHANGED otherVars

\* the backend produces a message for the run, stamped with the current time
BackendEmit ==
    /\ Running
    /\ Len(log) < MaxMsgs
    /\ \E m \in Messages :
          log' = Append(log, [type |-> m.type, message |-> m.message,
                              timestamp |-> now])
    /\ UNCHANGED inFlight
    /\ UNCHANGED <<pc, now, run, since, conversationActive, pos, streamEndReason,
                   delivered, rendered, calls, returns, prompts, attempts,
                   accepted, completed, errors, exitCode>>
    /\ UNCHANGED otherVars

(* ------------------------------ driver --------------------------------- *)
\* the loop's test and, when it passes, the streamMessages call of the iteration
EnterLoop(r, s, cs) ==
    /\ pc' = "streaming"
    /\ calls' = Append(cs, StreamCall(r, s))
    /\ pos' = 1
    /\ streamEndReason' = "none"

\* the streaming call in flight is over
LeaveStream ==
    /\ pos' = 1
    /\ streamEndReason' = "none"

\* the outer catch: report, process.exitCode = 1
OuterCatch ==
    /\ pc' = "error"
    /\ errors' = Append(errors, "Error during conversation:")
    /\ exitCode' = 1

\* the run command calls startInteractiveConversation, which issues executeAsync
Start ==
    /\ pc = "init"
    /\ \E interactive \in BOOLEAN :
          calls' = Append(calls, [op |-> "executeAsync", type |-> "conversation",
                                  interactive |-> interactive])
    /\ pc' = "executing"
    /\ inFlight' = {Len(calls) + 1}
    /\ UNCHANGED <<now, log, run, since, conversationActive, pos, streamEndReason,
                   delivered, rendered, returns, prompts, attempts, accepted,
                   completed, errors, exitCode>>
    /\ UNCHANGED otherVars

\* executeAsync resolves: conversationActive = true, since = 0, first streaming call
ExecuteAsyncOk ==
    /\ pc = "executing"
    /\ \E r \in RunHandles :
          /\ run' = r
          /\ EnterLoop(r, InitialSince, calls)
    /\ conversationActive' = TRUE
    /\ since' = InitialSince
    /\ inFlight' = Settled("executeAsync") \cup {Len(calls) + 1}
    /\ UNCHANGED <<now, log, delivered, rendered, returns, prompts, attempts,
                   accepted, completed, errors, exitCode>>
    /\ UNCHANGED otherVars

\* ExecuteAsyncFail with a fault: reported, but process.exitCode is not set
ExecuteAsyncFailReturns ==
    /\ pc = "executing"
    /\ pc' = "error"
    /\ errors' = Append(errors, "Error during conversation:")
    /\ inFlight' = Settled("executeAsync")
    /\ UNCHANGED <<now, log, run, since, conversationActive, pos, streamEndReason,
                   delivered, rendered, calls, returns, prompts, attempts,
                   accepted, completed, exitCode>>
    /\ UNCHANGED otherVars

\* executeAsync rejects: the outer catch
ExecuteAsyncFail ==
    /\ pc = "executing"
    /\ OuterCatch
    /\ inFlight' = Settled("executeAsync")
    /\ UNCHANGED <<now, log, run, since, conversationActive, pos, streamEndReason,
                   delivered, rendered, calls, returns, prompts, attempts,
                   accepted, completed>>
    /\ UNCHANGED otherVars

\* OnMessage with a fault: the cursor is moved by the callback, to the timestamp
\* of the message it was given
OnMessageSetsCursor ==
    /\ pc = "streaming"
    /\ streamEndReason = "none"
    /\ Pending # {}
    /\ LET i == CHOOSE j \in Pending : \A k \in Pending : j <= k
           item == log[i]
       IN  /\ delivered' =
                Append(delivered, [call |-> Len(StreamCalls), index |-> i])
           /\ rendered' = IF Renders(item) THEN Append(rendered, i) ELSE rendered
           /\ streamEndReason' = ExitReasonFor(item.type)
           /\ pos' = i + 1
           /\ since' = item.timestamp
    /\ UNCHANGED inFlight
    /\ UNCHANGED <<pc, now, log, run, conversationActive, calls, returns,
                   prompts, attempts, accepted, completed, errors, exitCode>>
    /\ UNCHANGED otherVars

\* OnMessage with a fault: the kind is tested first, and a message that ends the
\* call is not rendered
OnMessageExitFirst ==
    /\ pc = "streaming"
    /\ streamEndReason = "none"
    /\ Pending # {}
    /\ LET i == CHOOSE j \in Pending : \A k \in Pending : j <= k
           item == log[i]
       IN  /\ delivered' =
                Append(delivered, [call |-> Len(StreamCalls), index |-> i])
           /\ rendered' = IF Renders(item) /\ ExitReasonFor(item.type) = "none"
                          THEN Append(rendered, i) ELSE rendered
           /\ streamEndReason' = ExitReasonFor(item.type)
           /\ pos' = i + 1
    /\ UNCHANGED inFlight
    /\ UNCHANGED <<pc, now, log, run, since, conversationActive, calls, returns,
                   prompts, attempts, accepted, completed, errors, exitCode>>
    /\ UNCHANGED otherVars

\* the streaming callback, for the next message newer than the cursor
OnMessage ==
    /\ pc = "streaming"
    /\ streamEndReason = "none"
    /\ Pending # {}
    /\ LET i == CHOOSE j \in Pending : \A k \in Pending : j <= k
           item == log[i]
       IN  /\ delivered' =
                Append(delivered, [call |-> Len(StreamCalls), index |-> i])
           /\ rendered' = IF Renders(item) THEN Append(rendered, i) ELSE rendered
           /\ streamEndReason' = ExitReasonFor(item.type)
           /\ pos' = i + 1
    /\ UNCHANGED inFlight
    /\ UNCHANGED <<pc, now, log, run, since, conversationActive, calls, returns,
                   prompts, attempts, accepted, completed, errors, exitCode>>
    /\ UNCHANGED otherVars

\* AfterStream with a fault: the loop ends on "done" only, any other reason prompts
AfterStreamPromptUnlessDone(reason) ==
    /\ since' = now
    /\ IF reason # "done"
       THEN /\ pc' = "prompting"
            /\ prompts' = prompts + 1
            /\ UNCHANGED <<conversationActive, completed>>
       ELSE /\ pc' = "done"
            /\ conversationActive' = FALSE
            /\ completed' = TRUE
            /\ UNCHANGED prompts

\* what follows a streaming call in the loop body: since = Date.now(), then the
\* prompt when the reason is "input", else the end of the loop and the notice
AfterStream(reason) ==
    /\ since' = now
    /\ IF reason = "input"
       THEN /\ pc' = "prompting"
            /\ prompts' = prompts + 1
            /\ UNCHANGED <<conversationActive, completed>>
       ELSE /\ pc' = "done"
            /\ conversationActive' = FALSE
            /\ completed' = TRUE
            /\ UNCHANGED prompts

\* StreamReturn with a fault: conversationActive is not cleared, so a call that
\* did not end with "input" is followed by the next iteration
StreamReturnKeepsLooping ==
    /\ pc = "streaming"
    /\ returns' = Append(returns, IF streamEndReason = "none" THEN "undefined"
                                  ELSE streamEndReason)
    /\ since' = now
    /\ IF streamEndReason = "input"
       THEN /\ pc' = "prompting"
            /\ prompts' = prompts + 1
            /\ LeaveStream
            /\ inFlight' = Settled("streamMessages")
            /\ UNCHANGED calls
       ELSE /\ Len(StreamCalls) < MaxStreams
            /\ EnterLoop(run, now, calls)
            /\ inFlight' = Settled("streamMessages") \cup {Len(calls) + 1}
            /\ UNCHANGED prompts
    /\ UNCHANGED <<now, log, run, conversationActive, delivered, rendered,
                   attempts, accepted, completed, errors, exitCode>>
    /\ UNCHANGED otherVars

\* the streaming call resolves: with the reason given to exitFn, or with no
\* reason when the backend closes the stream
StreamReturn ==
    /\ pc = "streaming"
    /\ returns' = Append(returns, IF streamEndReason = "none" THEN "undefined"
                                  ELSE streamEndReason)
    /\ AfterStream(streamEndReason)
    /\ LeaveStream
    /\ inFlight' = Settled("streamMessages")
    /\ UNCHANGED <<now, log, run, delivered, rendered, calls, attempts, accepted,
                   errors, exitCode>>
    /\ UNCHANGED otherVars

\* the streaming call rejects with an Error: the inner catch reports and returns
StreamThrowError ==
    /\ pc = "streaming"
    /\ streamEndReason = "none"
    /\ returns' = Append(returns, "Error")
    /\ errors' = Append(errors, "Error while streaming messages:")
    /\ pc' = "aborted"
    /\ LeaveStream
    /\ inFlight' = Settled("streamMessages")
    /\ UNCHANGED <<now, log, run, since, conversationActive, delivered, rendered,
                   calls, prompts, attempts, accepted, completed, exitCode>>
    /\ UNCHANGED otherVars

\* the streaming call rejects with a value that is no Error: the inner catch
\* falls through, streamEndReason is still undefined
StreamThrowOther ==
    /\ pc = "streaming"
    /\ streamEndReason = "none"
    /\ returns' = Append(returns, "nonError")
    /\ AfterStream("none")
    /\ LeaveStream
    /\ inFlight' = Settled("streamMessages")
    /\ UNCHANGED <<now, log, run, delivered, rendered, calls, attempts, accepted,
                   errors, exitCode>>
    /\ UNCHANGED otherVars

\* PromptSubmit with a fault: sendSignal is not awaited, the next streaming
\* call is issued while the signal is still in flight
PromptSubmitNoAwait ==
    /\ pc = "prompting"
    /\ \E input \in UserInputs :
          IF Validate(input)
          THEN /\ Len(StreamCalls) < MaxStreams
               /\ accepted' = Append(accepted, input)
               /\ calls' = Append(Append(calls, SignalCall(run, input)),
                                  StreamCall(run, since))
               /\ inFlight' = inFlight \cup {Len(calls) + 1, Len(calls) + 2}
               /\ pc' = "streaming"
               /\ attempts' = << >>
          ELSE /\ Len(attempts) < MaxAttempts
               /\ attempts' = Append(attempts, input)
               /\ UNCHANGED <<accepted, calls, inFlight, pc>>
    /\ UNCHANGED <<now, log, run, since, conversationActive, pos, streamEndReason,
                   delivered, rendered, returns, prompts, completed, errors,
                   exitCode>>
    /\ UNCHANGED otherVars

\* the user submits a line: rejected by validate and asked again, or accepted
\* and sent as the UserInput signal
PromptSubmit ==
    /\ pc = "prompting"
    /\ \E input \in UserInputs :
          IF Validate(input)
          THEN /\ accepted' = Append(accepted, input)
               /\ calls' = Append(calls, SignalCall(run, input))
               /\ inFlight' = inFlight \cup {Len(calls) + 1}
               /\ pc' = "signalling"
               /\ attempts' = << >>
          ELSE /\ Len(attempts) < MaxAttempts
               /\ attempts' = Append(attempts, input)
               /\ UNCHANGED <<accepted, calls, inFlight, pc>>
    /\ UNCHANGED <<now, log, run, since, conversationActive, pos, streamEndReason,
                   delivered, rendered, returns, prompts, completed, errors,
                   exitCode>>
    /\ UNCHANGED otherVars

\* the prompt rejects (it is closed, interrupted): the outer catch
PromptFail ==
    /\ pc = "prompting"
    /\ OuterCatch
    /\ attempts' = << >>
    /\ UNCHANGED inFlight
    /\ UNCHANGED <<now, log, run, since, conversationActive, pos, streamEndReason,
                   delivered, rendered, calls, returns, prompts, accepted,
                   completed>>
    /\ UNCHANGED otherVars

\* sendSignal resolves: next iteration of the loop
SendSignalOk ==
    /\ pc = "signalling"
    /\ Len(StreamCalls) < MaxStreams
    /\ EnterLoop(run, since, calls)
    /\ inFlight' = Settled("sendSignal") \cup {Len(calls) + 1}
    /\ UNCHANGED <<now, log, run, since, conversationActive, delivered, rendered,
                   returns, prompts, attempts, accepted, completed, errors,
                   exitCode>>
    /\ UNCHANGED otherVars

\* SendSignalFail with a fault: the rejection is handled as the streaming
\* call's is, reported and returned from, process.exitCode left alone
SendSignalFailReturns ==
    /\ pc = "signalling"
    /\ pc' = "aborted"
    /\ errors' = Append(errors, "Error during conversation:")
    /\ inFlight' = Settled("sendSignal")
    /\ UNCHANGED <<now, log, run, since, conversationActive, pos, streamEndReason,
                   delivered, rendered, calls, returns, prompts, attempts,
                   accepted, completed, exitCode>>
    /\ UNCHANGED otherVars

\* sendSignal rejects: the outer catch
SendSignalFail ==
    /\ pc = "signalling"
    /\ OuterCatch
    /\ inFlight' = Settled("sendSignal")
    /\ UNCHANGED <<now, log, run, since, conversationActive, pos, streamEndReason,
                   delivered, rendered, calls, returns, prompts, attempts,
                   accepted, completed>>
    /\ UNCHANGED otherVars

Next ==
    \/ Tick
    \/ BackendEmit
    \/ Start
    \/ ExecuteAsyncOk
    \/ ExecuteAsyncFail
    \/ OnMessage
    \/ StreamReturn
    \/ StreamThrowError
    \/ StreamThrowOther
    \/ PromptSubmit
    \/ PromptFail
    \/ SendSignalOk
    \/ SendSignalFail

Spec == Init /\ [][Next]_<<vars, otherVars>>

(* --------------------------- the renderer ------------------------------ *)
\* texts are sequences of characters; a text is put together from at most
\* MaxPieces pieces
MaxPieces == 5
MaxFormatPieces == 2

StoreWord == <<"s", "t", "o", "r", "e">>
CollectionWord == <<"c", "o", "l", "l", "e", "c", "t", "i", "o", "n">>
TextPieces ==
    { StoreWord \o <<":">>, CollectionWord \o <<":">>,
      <<"a">>, <<"Z", "9", "-">>, <<":">>, <<" ">>, <<"_">> }

RECURSIVE TextsOf(_)
TextsOf(n) ==
    IF n = 0 THEN { << >> }
    ELSE LET shorter == TextsOf(n - 1)
         IN  shorter \cup { t \o p : t \in shorter, p \in TextPieces }

\* the values VERTESIA_ENVIRONMENT is given, "undefined" when it is not set
Sites == {"undefined", "api.vertesia.io", "api-preview.vertesia.io",
          "api-staging.vertesia.io", "api.example.com"}

\* switch (site): the UI domain of the environment
UiDomain(s) ==
    IF s = "api-preview.vertesia.io" THEN <<"p", "r", "e", "v", "i", "e", "w", ".", "c", "l", "o", "u", "d", ".", "v", "e", "r", "t", "e", "s", "i", "a", ".", "i", "o">>
    ELSE IF s = "api-staging.vertesia.io" THEN <<"s", "t", "a", "g", "i", "n", "g", ".", "c", "l", "o", "u", "d", ".", "v", "e", "r", "t", "e", "s", "i", "a", ".", "i", "o">>
    ELSE <<"c", "l", "o", "u", "d", ".", "v", "e", "r", "t", "e", "s", "i", "a", ".", "i", "o">>

\* the class [a-zA-Z0-9-]
IdChars ==
    {"a", "b", "c", "d", "e", "f", "g", "h", "i", "j", "k", "l", "m", "n", "o", "p", "q", "r", "s", "t", "u", "v", "w", "x", "y", "z"}
    \cup {"A", "B", "C", "D", "E", "F", "G", "H", "I", "J", "K", "L", "M", "N", "O", "P", "Q", "R", "S", "T", "U", "V", "W", "X", "Y", "Z"}
    \cup {"0", "1", "2", "3", "4", "5", "6", "7", "8", "9"}
    \cup {"-"}
\* IsIdChar with a fault: the id runs to the next white space, as \S+ would
IsIdCharNonSpace(c) == c \notin {" ", "\t", "\n"}
IsIdChar(c) == c \in IdChars

\* `word` is in `text` at index i
HasPrefixAt(text, i, word) ==
    /\ i + Len(word) - 1 <= Len(text)
    /\ SubSeq(text, i, i + Len(word) - 1) = word

\* ([a-zA-Z0-9-]+) is greedy: the last index of the run of id characters that
\* starts at j, j - 1 when there is none
RECURSIVE IdEnd(_, _)
IdEnd(text, j) ==
    IF j <= Len(text) /\ IsIdChar(text[j]) THEN IdEnd(text, j + 1) ELSE j - 1

\* /word:([a-zA-Z0-9-]+)/ matches at index i
MatchAt(text, i, word) ==
    /\ HasPrefixAt(text, i, word \o <<":">>)
    /\ IdEnd(text, i + Len(word) + 1) >= i + Len(word) + 1

\* the matches of the global regex, left to right, none overlapping: <<first, last>>
RECURSIVE MatchSpans(_, _, _)
MatchSpans(text, word, i) ==
    IF i > Len(text) THEN << >>
    ELSE IF MatchAt(text, i, word)
         THEN LET e == IdEnd(text, i + Len(word) + 1)
              IN  << <<i, e>> >> \o MatchSpans(text, word, e + 1)
         ELSE MatchSpans(text, word, i + 1)

\* ReplaceAll with a fault: the regex has lost its g flag, only the first match
\* is replaced
RECURSIVE ReplaceFirstOnly(_, _, _, _)
ReplaceFirstOnly(text, word, prefix, i) ==
    IF i > Len(text) THEN << >>
    ELSE IF MatchAt(text, i, word)
         THEN LET e == IdEnd(text, i + Len(word) + 1)
              IN  prefix \o SubSeq(text, i + Len(word) + 1, e)
                         \o SubSeq(text, e + 1, Len(text))
         ELSE <<text[i]>> \o ReplaceFirstOnly(text, word, prefix, i + 1)

\* ReplaceAll with a fault: the template interpolates the whole match, not the
\* captured id
RECURSIVE ReplaceAllWholeMatch(_, _, _, _)
ReplaceAllWholeMatch(text, word, prefix, i) ==
    IF i > Len(text) THEN << >>
    ELSE IF MatchAt(text, i, word)
         THEN LET e == IdEnd(text, i + Len(word) + 1)
              IN  prefix \o SubSeq(text, i, e)
                         \o ReplaceAllWholeMatch(text, word, prefix, e + 1)
         ELSE <<text[i]>> \o ReplaceAllWholeMatch(text, word, prefix, i + 1)

\* text.replace(regex, (match, id) => prefix + id) from index i on
RECURSIVE ReplaceAll(_, _, _, _)
ReplaceAll(text, word, prefix, i) ==
    IF i > Len(text) THEN << >>
    ELSE IF MatchAt(text, i, word)
         THEN LET e == IdEnd(text, i + Len(word) + 1)
              IN  prefix \o SubSeq(text, i + Len(word) + 1, e)
                         \o ReplaceAll(text, word, prefix, e + 1)
         ELSE <<text[i]>> \o ReplaceAll(text, word, prefix, i + 1)

Https == <<"h", "t", "t", "p", "s", ":", "/", "/">>
ObjectsPath == <<"/", "s", "t", "o", "r", "e", "/", "o", "b", "j", "e", "c", "t", "s", "/">>
CollectionsPath == <<"/", "s", "t", "o", "r", "e", "/", "c", "o", "l", "l", "e", "c", "t", "i", "o", "n", "s", "/">>
StoreUrlPrefix(s) == Https \o UiDomain(s) \o ObjectsPath
CollectionUrlPrefix(s) == Https \o UiDomain(s) \o CollectionsPath

\* the first replace: store:<id>
StorePass(text, s) == ReplaceAll(text, StoreWord, StoreUrlPrefix(s), 1)
\* the second replace: collection:<id>
CollectionPass(text, s) == ReplaceAll(text, CollectionWord, CollectionUrlPrefix(s), 1)

TransformStoreLinks(text, s) == CollectionPass(StorePass(text, s), s)

\* marked(text): the markdown renderer, a library outside the repository
Marked(text) == [renderer |-> "marked", source |-> text]
\* `${message}\n`: the text as it came, a line break after it
Verbatim(text) == [renderer |-> "none", source |-> text \o <<"\n">>]

\* the switch of formatMessage: colour and label of the kind
TypeColor(type) ==
    IF type = QUESTION THEN [color |-> "green", label |-> "User:"]
    ELSE IF type = ERROR THEN [color |-> "red", label |-> "Error:"]
    ELSE IF type = COMPLETE THEN [color |-> "green", label |-> "Complete:"]
    ELSE IF type = IDLE THEN [color |-> "yellow", label |-> "Idle:"]
    ELSE [color |-> "blue", label |-> "Agent:"]

\* PlainKinds with a fault: COMPLETE is printed as it came
PlainKindsWithComplete == {QUESTION, IDLE, ERROR, COMPLETE}
\* the kinds whose text is printed as it came
PlainKinds == {QUESTION, IDLE, ERROR}

\* FormatMessage with a fault: the body is printed before the label line
FormatMessageBodyFirst(type, text, timestamp, s) ==
    << IF type \notin PlainKinds
       THEN [line |-> "body", value |-> Marked(TransformStoreLinks(text, s))]
       ELSE [line |-> "body", value |-> Verbatim(text)],
       [line |-> "label", date |-> timestamp, typeColor |-> TypeColor(type)] >>

\* formatMessage: the two console.log calls, in order
FormatMessage(type, text, timestamp, s) ==
    << [line |-> "label", date |-> timestamp, typeColor |-> TypeColor(type)],
       IF type \notin PlainKinds
       THEN [line |-> "body", value |-> Marked(TransformStoreLinks(text, s))]
       ELSE [line |-> "body", value |-> Verbatim(text)] >>

\* transformStoreLinks is called on a text
InitLinks ==
    /\ IdleBesidesRender
    /\ site \in Sites
    /\ message \in TextsOf(MaxPieces)
    /\ args = [type |-> ANSWER, timestamp |-> 0]
    /\ transformed = << >>
    /\ stdout = << >>

TransformStoreLinksCall ==
    /\ transformed = << >>
    /\ transformed' = <<TransformStoreLinks(message, site)>>
    /\ UNCHANGED <<site, message, args, stdout>>
    /\ UNCHANGED besidesRender

NextLinks == TransformStoreLinksCall

SpecLinks == InitLinks /\ [][NextLinks]_<<vars, otherVars>>

\* formatMessage is called on a message
InitFormat ==
    /\ IdleBesidesRender
    /\ site \in Sites
    /\ message \in TextsOf(MaxFormatPieces)
    /\ args \in [type : MessageTypes, timestamp : 0..MaxTime]
    /\ transformed = << >>
    /\ stdout = << >>

FormatMessageCall ==
    /\ stdout = << >>
    /\ stdout' = FormatMessage(args.type, message, args.timestamp, site)
    /\ UNCHANGED <<site, message, args, transformed>>
    /\ UNCHANGED besidesRender

NextFormat == FormatMessageCall

SpecFormat == InitFormat /\ [][NextFormat]_<<vars, otherVars>>

(* ------------------- release notes: the token limit -------------------- *)
\* A JSON text is held as the array it encodes, JSON.stringify(array, null, 2)
\* being how each text is made; a string field is held as its length, -1 for a
\* body that is null.
MaxIssues == 11
MaxDiffs == 6
NewBodyLength == 150
DiffsKept == 5
IssuesKept == 10
NoBody == 0 - 1
BodyLengths == {NoBody, 100, 151, 400}
SampleLengths == {40, 4000}
TokenLimits == {100, 1000, 3000, 18000}

\* the characters of an issue and of a diff summary beside body and sample
IssueFrame == 120
DiffFrame == 80

IssueArrays == {[i \in 1..n |-> [body |-> b]] : n \in 0..MaxIssues, b \in BodyLengths}
DiffArrays == {[i \in 1..n |-> [sample |-> c]] : n \in 0..MaxDiffs, c \in SampleLengths}

RECURSIVE SumOf(_)
SumOf(lengths) ==
    IF lengths = << >> THEN 0 ELSE Head(lengths) + SumOf(Tail(lengths))

\* text.length of the JSON text of an array of issues, of diff summaries
IssuesLength(issues) ==
    2 + SumOf([i \in 1..Len(issues) |->
                 IssueFrame + (IF issues[i].body = NoBody THEN 4
                               ELSE issues[i].body + 2)])
DiffsLength(diffs) ==
    2 + SumOf([i \in 1..Len(diffs) |-> DiffFrame + diffs[i].sample + 2])

\* countTokens, by its estimate Math.ceil(text.length / 4)
CountTokens(length) == (length + 3) \div 4

\* body.substring(0, newBodyLength) + "..." when the body is longer
TruncateBody(issue) ==
    [issue EXCEPT !.body = IF issue.body > NewBodyLength
                           THEN NewBodyLength + 3 ELSE issue.body]

\* array.slice(0, n)
Slice(array, n) == SubSeq(array, 1, IF Len(array) < n THEN Len(array) ELSE n)

ReduceContentToTokenLimit(issues, diffs, limit) ==
    LET tokens0 == CountTokens(IssuesLength(issues)) + CountTokens(DiffsLength(diffs))
        issues1 == [i \in 1..Len(issues) |-> TruncateBody(issues[i])]
        tokens1 == CountTokens(IssuesLength(issues1)) + CountTokens(DiffsLength(diffs))
        cut2 == tokens1 > limit /\ Len(diffs) > DiffsKept
        diffs2 == IF cut2 THEN Slice(diffs, DiffsKept) ELSE diffs
        tokens2 == IF cut2
                   THEN CountTokens(IssuesLength(issues1)) + CountTokens(DiffsLength(diffs2))
                   ELSE tokens1
        cut3 == tokens2 > limit /\ Len(issues1) > IssuesKept
        issues3 == IF cut3 THEN Slice(issues1, IssuesKept) ELSE issues1
    IN  IF tokens0 <= limit
        THEN [issues |-> issues, diffs |-> diffs]
        ELSE [issues |-> issues3, diffs |-> diffs2]

InitReduce ==
    /\ IdleBesidesReduce
    /\ issuesJson \in IssueArrays
    /\ diffJson \in DiffArrays
    /\ targetTokenLimit \in TokenLimits
    /\ reduced = << >>

\* generateReleaseNotesWithVertesia reduces the two texts before it sends them
ReduceCall ==
    /\ reduced = << >>
    /\ reduced' = <<ReduceContentToTokenLimit(issuesJson, diffJson, targetTokenLimit)>>
    /\ UNCHANGED <<issuesJson, diffJson, targetTokenLimit>>
    /\ UNCHANGED besidesReduce

NextReduce == ReduceCall

SpecReduce == InitReduce /\ [][NextReduce]_<<vars, otherVars>>

(* ------------------- release notes: the issue cache -------------------- *)
\* Time is counted in hours. An issue is held as its number and the time GitHub
\* returned it; lists of issues are held as sets, their order playing no part.
MaxClock == 36
MaxIssueNumber == 3
ClockStep == 12
MaxCacheAge == 24
IssueNumbers == 1..MaxIssueNumber
Repositories == {"o/a", "o/b"}

NumbersOf(issueSet) == {i.number : i \in issueSet}

\* LoadIssueCache with a fault: a cache of exactly the maximal age is still used
LoadIssueCacheAtMaxAge(file, repository, t) ==
    IF file.exists /\ file.repository = repository /\ t - file.timestamp <= MaxCacheAge
    THEN file ELSE NoFile

\* loadIssueCache at time t: the cache when it is of the repository and fresh
LoadIssueCache(file, repository, t) ==
    IF file.exists /\ file.repository = repository /\ t - file.timestamp < MaxCacheAge
    THEN file ELSE NoFile

\* saveIssueCache at time t
SaveIssueCache(issueSet, repository, t) ==
    [exists |-> TRUE, repository |-> repository, timestamp |-> t, issues |-> issueSet]

InitIssues ==
    /\ IdleBesidesIssues
    /\ IssuesIdle

\* time passes
ClockTick ==
    /\ clock + ClockStep <= MaxClock
    /\ clock' = clock + ClockStep
    /\ UNCHANGED <<cacheFile, fetchPc, request, cache, issuesOut, issuesToFetch,
                   requested>>
    /\ UNCHANGED besidesIssues

\* fetchIssues is called: the cache is loaded and the numbers are split into
\* those served from it and those to fetch
FetchIssuesLoad ==
    /\ fetchPc # "fetching"
    /\ \E repository \in Repositories, numbers \in SUBSET IssueNumbers :
          LET loaded == LoadIssueCache(cacheFile, repository, clock)
          IN  /\ request' = [repository |-> repository, issueNumbers |-> numbers]
              /\ cache' = loaded
              /\ issuesOut' = IF loaded.exists
                              THEN {i \in loaded.issues : i.number \in numbers}
                              ELSE {}
              /\ issuesToFetch' = IF loaded.exists
                                  THEN numbers \ NumbersOf(loaded.issues)
                                  ELSE numbers
    /\ requested' = {}
    /\ fetchPc' = "fetching"
    /\ UNCHANGED <<clock, cacheFile>>
    /\ UNCHANGED besidesIssues

\* the requests to GitHub, each answered or failed, and the cache saved when
\* something was fetched
FetchIssuesFetch ==
    /\ fetchPc = "fetching"
    /\ \E answered \in SUBSET issuesToFetch :
          LET fetchedIssues == {[number |-> n, fetchedAt |-> clock] : n \in answered}
          IN  /\ issuesOut' = issuesOut \cup fetchedIssues
              /\ cacheFile' =
                    IF fetchedIssues = {} THEN cacheFile
                    ELSE IF cache.exists
                         THEN SaveIssueCache(cache.issues \cup fetchedIssues,
                                             request.repository, clock)
                         ELSE SaveIssueCache(issuesOut \cup fetchedIssues,
                                             request.repository, clock)
    /\ requested' = issuesToFetch
    /\ fetchPc' = "returned"
    /\ UNCHANGED <<clock, request, cache, issuesToFetch>>
    /\ UNCHANGED besidesIssues

NextIssues ==
    \/ ClockTick
    \/ FetchIssuesLoad
    \/ FetchIssuesFetch

SpecIssues == InitIssues /\ [][NextIssues]_<<vars, otherVars>>

(* ----------------------- AWS Bedrock set-up ---------------------------- *)
\* Every request may fail; AWS refuses to create an OIDC provider or a role
\* that exists already (EntityAlreadyExists).
VERTESIA_PROVIDER_URL == "VERTESIA_PROVIDER_URL"
BedrockPolicy == "arn:aws:iam::aws:policy/AmazonBedrockFullAccess"
Accounts == {"org1", "org2"}
ProjectLists == {<< >>, <<"p1">>, <<"p2", "p1">>}
RoleNames == {"r1", "r2"}
EnvironmentIds == {"e1", "e2"}
ExistingRole == [name |-> "r1", federated |-> "arn:other", condition |-> << >>,
                 policies |-> {}]
ArnOf(name) == <<"arn", name>>

\* TrustCondition with a fault: the subject names the organization where the
\* environment belongs
TrustConditionSwapped(organizationId, environmentId) ==
    <<"env", environmentId, organizationId>>
\* condition[`${VERTESIA_STS}:sub`] = `env:${organizationId}:${environmentId}`
TrustCondition(organizationId, environmentId) ==
    <<"env", organizationId, environmentId>>

BedrockCall(op, ok, detail) == [op |-> op, ok |-> ok, detail |-> detail]

InitBedrock ==
    /\ IdleBesidesBedrock
    /\ bedrockPc = "start"
    /\ bedrockCalls = << >>
    /\ \E existed \in BOOLEAN, name \in RoleNames, roles \in {{}, {ExistingRole}} :
          /\ bedrockArgs = [roleName |-> name, providerExisted |-> existed]
          /\ iam = [providers |-> IF existed THEN {VERTESIA_PROVIDER_URL} ELSE {},
                    roles |-> roles]
    /\ environments = {}
    /\ bedrockLocals = NoLocals

\* vertesia.account.info()
BedrockAccountInfo ==
    /\ bedrockPc = "start"
    /\ \E ok \in BOOLEAN, account \in Accounts :
          /\ bedrockCalls' = Append(bedrockCalls, BedrockCall("account.info", ok, << >>))
          /\ IF ok
             THEN /\ bedrockLocals' = [bedrockLocals EXCEPT !.account = account]
                  /\ bedrockPc' = "projects"
             ELSE /\ bedrockPc' = "failed"
                  /\ UNCHANGED bedrockLocals
    /\ UNCHANGED <<bedrockArgs, iam, environments>>
    /\ UNCHANGED besidesBedrock

\* vertesia.projects.list(), process.exit(1) when there is no project
BedrockProjectsList ==
    /\ bedrockPc = "projects"
    /\ \E ok \in BOOLEAN, projects \in ProjectLists :
          /\ bedrockCalls' = Append(bedrockCalls, BedrockCall("projects.list", ok, << >>))
          /\ IF ~ok
             THEN /\ bedrockPc' = "failed"
                  /\ UNCHANGED bedrockLocals
             ELSE IF Len(projects) = 0
             THEN /\ bedrockPc' = "exited"
                  /\ UNCHANGED bedrockLocals
             ELSE /\ bedrockLocals' = [bedrockLocals EXCEPT !.project = projects[1]]
                  /\ bedrockPc' = "provider"
    /\ UNCHANGED <<bedrockArgs, iam, environments>>
    /\ UNCHANGED besidesBedrock

\* createOIDCProvider: CreateOpenIDConnectProviderCommand is sent
BedrockCreateOIDCProvider ==
    /\ bedrockPc = "provider"
    /\ LET existed == VERTESIA_PROVIDER_URL \in iam.providers
       IN  \E answer \in {"created", "createdNoArn", "refused"} :
              /\ existed => answer = "refused"
              /\ bedrockCalls' = Append(bedrockCalls,
                     BedrockCall("CreateOpenIDConnectProvider", answer = "created",
                                 [existed |-> existed]))
              /\ iam' = IF answer = "refused" THEN iam
                        ELSE [iam EXCEPT !.providers = @ \cup {VERTESIA_PROVIDER_URL}]
              /\ IF answer = "created"
                 THEN /\ bedrockLocals' = [bedrockLocals EXCEPT
                                             !.providerArn = ArnOf(VERTESIA_PROVIDER_URL)]
                      /\ bedrockPc' = "environment"
                 ELSE /\ bedrockPc' = "failed"
                      /\ UNCHANGED bedrockLocals
    /\ UNCHANGED <<bedrockArgs, environments>>
    /\ UNCHANGED besidesBedrock

\* vertesia.environments.create
BedrockEnvironmentsCreate ==
    /\ bedrockPc = "environment"
    /\ \E ok \in BOOLEAN, id \in EnvironmentIds :
          /\ bedrockCalls' = Append(bedrockCalls,
                 BedrockCall("environments.create", ok,
                             [allowed_projects |-> <<bedrockLocals.project>>]))
          /\ IF ok
             THEN /\ environments' = environments \cup {[id |-> id, apiKey |-> ""]}
                  /\ bedrockLocals' = [bedrockLocals EXCEPT !.environment = id]
                  /\ bedrockPc' = "role"
             ELSE /\ bedrockPc' = "failed"
                  /\ UNCHANGED <<environments, bedrockLocals>>
    /\ UNCHANGED <<bedrockArgs, iam>>
    /\ UNCHANGED besidesBedrock

\* createIAMRole: CreateRoleCommand is sent
BedrockCreateRole ==
    /\ bedrockPc = "role"
    /\ LET existed == \E r \in iam.roles : r.name = bedrockArgs.roleName
           role == [name |-> bedrockArgs.roleName,
                    federated |-> bedrockLocals.providerArn,
                    condition |-> TrustCondition(bedrockLocals.account,
                                                 bedrockLocals.environment),
                    policies |-> {}]
       IN  \E answer \in {"created", "createdNoArn", "refused"} :
              /\ existed => answer = "refused"
              /\ bedrockCalls' = Append(bedrockCalls,
                     BedrockCall("CreateRole", answer = "created", role))
              /\ iam' = IF answer = "refused" THEN iam
                        ELSE [iam EXCEPT !.roles = @ \cup {role}]
              /\ IF answer = "created"
                 THEN /\ bedrockLocals' = [bedrockLocals EXCEPT
                                             !.roleArn = ArnOf(bedrockArgs.roleName)]
                      /\ bedrockPc' = "policy"
                 ELSE /\ bedrockPc' = "failed"
                      /\ UNCHANGED bedrockLocals
    /\ UNCHANGED <<bedrockArgs, environments>>
    /\ UNCHANGED besidesBedrock

\* attachRolePolicy: AttachRolePolicyCommand is sent
BedrockAttachRolePolicy ==
    /\ bedrockPc = "policy"
    /\ \E ok \in BOOLEAN :
          /\ bedrockCalls' = Append(bedrockCalls,
                 BedrockCall("AttachRolePolicy", ok,
                             [RoleName |-> bedrockArgs.roleName,
                              PolicyArn |-> BedrockPolicy]))
          /\ IF ok
             THEN /\ iam' = [iam EXCEPT !.roles =
                               {IF r.name = bedrockArgs.roleName
                                THEN [r EXCEPT !.policies = @ \cup {BedrockPolicy}]
                                ELSE r : r \in iam.roles}]
                  /\ bedrockPc' = "update"
             ELSE /\ bedrockPc' = "failed"
                  /\ UNCHANGED iam
    /\ UNCHANGED <<bedrockArgs, environments, bedrockLocals>>
    /\ UNCHANGED besidesBedrock

\* vertesia.environments.update(environment.id, { apiKey: roleArn })
BedrockEnvironmentsUpdate ==
    /\ bedrockPc = "update"
    /\ \E ok \in BOOLEAN :
          /\ bedrockCalls' = Append(bedrockCalls,
                 BedrockCall("environments.update", ok,
                             [id |-> bedrockLocals.environment,
                              apiKey |-> bedrockLocals.roleArn]))
          /\ IF ok
             THEN /\ environments' =
                        {IF e.id = bedrockLocals.environment
                         THEN [e EXCEPT !.apiKey = bedrockLocals.roleArn]
                         ELSE e : e \in environments}
                  /\ bedrockPc' = "models"
             ELSE /\ bedrockPc' = "failed"
                  /\ UNCHANGED environments
    /\ UNCHANGED <<bedrockArgs, iam, bedrockLocals>>
    /\ UNCHANGED besidesBedrock

\* after the delay, vertesia.environments.listModels(environment.id)
BedrockListModels ==
    /\ bedrockPc = "models"
    /\ \E ok \in BOOLEAN :
          /\ bedrockCalls' = Append(bedrockCalls,
                 BedrockCall("environments.listModels", ok,
                             [id |-> bedrockLocals.environment]))
          /\ bedrockPc' = IF ok THEN "done" ELSE "failed"
    /\ UNCHANGED <<bedrockArgs, iam, environments, bedrockLocals>>
    /\ UNCHANGED besidesBedrock

NextBedrock ==
    \/ BedrockAccountInfo
    \/ BedrockProjectsList
    \/ BedrockCreateOIDCProvider
    \/ BedrockEnvironmentsCreate
    \/ BedrockCreateRole
    \/ BedrockAttachRolePolicy
    \/ BedrockEnvironmentsUpdate
    \/ BedrockListModels

SpecBedrock == InitBedrock /\ [][NextBedrock]_<<vars, otherVars>>

(* ----------------------- GCP Vertex AI set-up -------------------------- *)
\* getOrCreatePool and getOrCreateProvider have the same steps on different
\* URLs; gcpResource says which of the two runs. GCP completes a create
\* operation at a time of its own choosing, or never.
MaxPolls == 7
MaxTries == 5
FirstPause == 3000
LookupAnswers == {"found", "404", "500", "noResponse"}

GcpRequest(op, answer) == [op |-> op, answer |-> answer]

\* error.response.status !== 404: an error without a response makes the test
\* itself throw
Rethrown(answer) == answer # "404"

InitGcp ==
    /\ IdleBesidesGcp
    /\ gcpPc = "lookup"
    /\ gcpResource \in {"pool", "provider"}
    /\ statusGlobal \in BOOLEAN
    /\ \E exists \in BOOLEAN : gcpCloud = [exists |-> exists, operation |-> "none"]
    /\ gcpRequests = << >>
    /\ gcpWait = NoWait
    /\ gcpResult = NoResult
    /\ gcpDone = << >>

\* GCP finishes the create operation
GcpOperationCompletes ==
    /\ gcpCloud.operation = "running"
    /\ gcpCloud' = [exists |-> TRUE, operation |-> "done"]
    /\ UNCHANGED <<gcpPc, gcpResource, statusGlobal, gcpRequests, gcpWait, gcpResult,
                   gcpDone>>
    /\ UNCHANGED besidesGcp

\* the lookup request and the test of its error
GcpLookup ==
    /\ gcpPc = "lookup"
    /\ \E answer \in LookupAnswers :
          /\ answer = "found" => gcpCloud.exists
          /\ answer = "404" => ~gcpCloud.exists
          /\ gcpRequests' = Append(gcpRequests, GcpRequest("get", answer))
          /\ IF answer = "found"
             THEN /\ gcpResult' = [returned |-> "existing", thrown |-> ""]
                  /\ gcpPc' = "returned"
             ELSE IF Rethrown(answer)
             THEN /\ gcpResult' = [returned |-> "", thrown |-> answer]
                  /\ gcpPc' = "failed"
             ELSE /\ gcpPc' = "create"
                  /\ UNCHANGED gcpResult
    /\ UNCHANGED <<gcpResource, statusGlobal, gcpCloud, gcpWait, gcpDone>>
    /\ UNCHANGED besidesGcp

\* the create request, then console.log(`Waiting for ... ${status}`), which
\* reads a name the function does not declare
GcpCreate ==
    /\ gcpPc = "create"
    /\ \E ok \in BOOLEAN :
          /\ gcpRequests' = Append(gcpRequests,
                                   GcpRequest("create", IF ok THEN "ok" ELSE "error"))
          /\ IF ~ok
             THEN /\ gcpResult' = [returned |-> "", thrown |-> "create"]
                  /\ gcpPc' = "failed"
                  /\ UNCHANGED <<gcpCloud, gcpWait>>
             ELSE /\ gcpCloud' = [gcpCloud EXCEPT !.operation = "running"]
                  /\ IF statusGlobal
                     THEN /\ gcpPc' = "wait"
                          /\ gcpWait' = [tries |-> 0, pause |-> FirstPause,
                                         status |-> FALSE, polls |-> 0]
                          /\ UNCHANGED gcpResult
                     ELSE /\ gcpResult' = [returned |-> "", thrown |-> "ReferenceError"]
                          /\ gcpPc' = "failed"
                          /\ UNCHANGED gcpWait
    /\ UNCHANGED <<gcpResource, statusGlobal, gcpDone>>
    /\ UNCHANGED besidesGcp

\* one round of waitForOperation's loop: delay(pause), pause doubled, the
\* operation requested, the loop test; on leaving the loop the caller's test
\* of the returned value
GcpWaitForOperation ==
    /\ gcpPc = "wait"
    /\ gcpWait.polls < MaxPolls
    /\ \E ok \in BOOLEAN :
          LET status == gcpCloud.operation = "done"
              polled == [gcpWait EXCEPT !.pause = @ * 2, !.polls = @ + 1]
          IN  /\ gcpRequests' = Append(gcpRequests,
                     GcpRequest("operation",
                                IF ~ok THEN "error" ELSE IF status THEN "done"
                                ELSE "running"))
              /\ IF ~ok
                 THEN /\ gcpWait' = polled
                      /\ gcpResult' = [returned |-> "", thrown |-> "operation"]
                      /\ gcpPc' = "failed"
                      /\ UNCHANGED gcpDone
                 ELSE /\ gcpWait' = [polled EXCEPT !.status = status]
                      /\ IF gcpWait.tries < MaxTries /\ ~status
                         THEN UNCHANGED <<gcpPc, gcpResult, gcpDone>>
                         ELSE /\ gcpDone' = <<status>>
                              /\ IF ~status
                                 THEN /\ gcpResult' = [returned |-> "",
                                                       thrown |-> "takes too long"]
                                      /\ gcpPc' = "failed"
                                 ELSE /\ gcpPc' = "details"
                                      /\ UNCHANGED gcpResult
    /\ UNCHANGED <<gcpResource, statusGlobal, gcpCloud>>
    /\ UNCHANGED besidesGcp

\* the request for the details of the resource just created
GcpDetails ==
    /\ gcpPc = "details"
    /\ \E ok \in BOOLEAN :
          /\ gcpRequests' = Append(gcpRequests,
                                   GcpRequest("details", IF ok THEN "ok" ELSE "error"))
          /\ IF ok
             THEN /\ gcpResult' = [returned |-> "created", thrown |-> ""]
                  /\ gcpPc' = "returned"
             ELSE /\ gcpResult' = [returned |-> "", thrown |-> "details"]
                  /\ gcpPc' = "failed"
    /\ UNCHANGED <<gcpResource, statusGlobal, gcpCloud, gcpWait, gcpDone>>
    /\ UNCHANGED besidesGcp

NextGcp ==
    \/ GcpOperationCompletes
    \/ GcpLookup
    \/ GcpCreate
    \/ GcpWaitForOperation
    \/ GcpDetails

SpecGcp == InitGcp /\ [][NextGcp]_<<vars, otherVars>>

(* ----------------------- client initialisation ------------------------- *)
\* An environment variable is unset ("undefined"), set to the empty string,
\* or set to some text.
MaxBackendCalls == 3
ApiKeys == {"undefined", "", "key", "key2"}
EnvironmentValues == Sites \cup {"", "https://api.vertesia.io"}

\* the list tested with includes()
AllowedSites ==
    {"api.vertesia.io", "api-preview.vertesia.io", "api-staging.vertesia.io"}

\* a JavaScript string or undefined taken as a condition
Falsy(value) == value \in {"undefined", ""}
\* EnvironmentOrDefault with a fault: the variable is not looked at
EnvironmentDefaultOnly(value) == "api.vertesia.io"
\* process.env.VERTESIA_ENVIRONMENT || "api.vertesia.io"
EnvironmentOrDefault(value) == IF Falsy(value) THEN "api.vertesia.io" ELSE value

InitClient ==
    /\ IdleBesidesClient
    /\ clientPc = "init"
    /\ processEnv \in [VERTESIA_API_KEY : ApiKeys, VERTESIA_ENVIRONMENT : EnvironmentValues]
    /\ client = NoClient
    /\ clientExit = 0
    /\ backendCalls = 0
    /\ sitesRead = {}

\* initializeClient()
InitializeClient ==
    /\ clientPc = "init"
    /\ LET apikey == processEnv.VERTESIA_API_KEY
           environment == EnvironmentOrDefault(processEnv.VERTESIA_ENVIRONMENT)
       IN  IF Falsy(apikey) \/ environment \notin AllowedSites
           THEN /\ clientPc' = "exited"
                /\ clientExit' = 1
                /\ UNCHANGED client
           ELSE /\ client' = [apikey |-> apikey, site |-> environment]
                /\ clientPc' = "running"
                /\ UNCHANGED clientExit
    /\ UNCHANGED <<processEnv, backendCalls, sitesRead>>
    /\ UNCHANGED besidesClient

\* a call made through the client: executeAsync, streamMessages, sendSignal
ClientBackendCall ==
    /\ clientPc = "running"
    /\ backendCalls < MaxBackendCalls
    /\ backendCalls' = backendCalls + 1
    /\ UNCHANGED <<clientPc, processEnv, client, clientExit, sitesRead>>
    /\ UNCHANGED besidesClient

\* transformStoreLinks reads process.env.VERTESIA_ENVIRONMENT for a message
\* that a streaming call delivered
ClientTransformStoreLinks ==
    /\ clientPc = "running"
    /\ backendCalls >= 2
    /\ sitesRead' = sitesRead \cup {processEnv.VERTESIA_ENVIRONMENT}
    /\ UNCHANGED <<clientPc, processEnv, client, clientExit, backendCalls>>
    /\ UNCHANGED besidesClient

NextClient ==
    \/ InitializeClient
    \/ ClientBackendCall
    \/ ClientTransformStoreLinks

SpecClient == InitClient /\ [][NextClient]_<<vars, otherVars>>

(* ----------------------- the interactive flag -------------------------- *)
\* startInteractiveConversation as a function of the replies it is given: each
\* operator below takes the run at one of its awaits and the reply to it, and
\* gives the run at its next await. trace is the sequence of streaming calls,
\* prompts and signals the run has issued.
MaxTwinNow == 7
MaxTwinMsgs == 2
StreamReplies ==
    {[thrown |-> th, types |-> ts] :
        th \in {"", "Error", "other"},
        ts \in UNION {[1..n -> MessageTypes] : n \in 0..MaxTwinMsgs}}
PromptReplies ==
    {[thrown |-> FALSE, input |-> i] : i \in UserInputs}
        \cup {[thrown |-> TRUE, input |-> << >>]}

\* the reason the callback ends the call with: that of the first message for
\* which it calls exitFn, "none" when it calls it for none
RECURSIVE EndReason(_)
EndReason(types) ==
    IF types = << >> THEN "none"
    ELSE IF ExitReasonFor(Head(types)) # "none" THEN ExitReasonFor(Head(types))
    ELSE EndReason(Tail(types))

\* PromptsOn with a fault: a run started without the flag does not prompt
PromptsOnIfInteractive(d, endReason) ==
    endReason = "input" /\ d.start.interactive
\* if (streamEndReason === "input")
PromptsOn(d, endReason) == endReason = "input"

Ends(d, code, saidCompleted) ==
    [d EXCEPT !.pc = "end", !.exitCode = code, !.completed = saidCompleted]

\* the reply to executeAsync; the loop is entered and the first streaming call made
OnExecuteAsync(d, ok, handle) ==
    IF ok
    THEN [d EXCEPT !.run = handle, !.since = 0, !.pc = "streamMessages",
                   !.trace = Append(@, StreamCall(handle, 0))]
    ELSE Ends(d, 1, FALSE)

\* the end of a streaming call, at clock value t
OnStreamMessages(d, reply, t) ==
    IF reply.thrown = "Error" THEN Ends(d, 0, FALSE)
    ELSE LET endReason == IF reply.thrown = "other" THEN "none"
                                ELSE EndReason(reply.types)
         IN  IF PromptsOn(d, endReason)
             THEN [d EXCEPT !.since = t, !.pc = "prompt",
                            !.trace = Append(@, [op |-> "prompt"])]
             ELSE Ends([d EXCEPT !.since = t], 0, TRUE)

\* a line typed at the prompt, or the prompt failing
OnPrompt(d, reply) ==
    IF reply.thrown THEN Ends(d, 1, FALSE)
    ELSE IF ~Validate(reply.input) THEN d
    ELSE [d EXCEPT !.pc = "sendSignal",
                   !.trace = Append(@, SignalCall(d.run, reply.input))]

\* the reply to sendSignal; the loop goes round to the next streaming call
OnSendSignal(d, ok) ==
    IF ok
    THEN [d EXCEPT !.pc = "streamMessages",
                   !.trace = Append(@, StreamCall(d.run, d.since))]
    ELSE Ends(d, 1, FALSE)

At(op) == twinOn.pc = op \/ twinOff.pc = op
Waiting(d, op, next) == IF d.pc = op THEN next ELSE d

InitTwin ==
    /\ IdleBesidesTwin
    /\ TwinIdle

TwinExecuteAsync ==
    /\ At("executeAsync")
    /\ twinNow < MaxTwinNow
    /\ \E ok \in BOOLEAN, handle \in RunHandles :
          /\ twinOn' = Waiting(twinOn, "executeAsync", OnExecuteAsync(twinOn, ok, handle))
          /\ twinOff' = Waiting(twinOff, "executeAsync", OnExecuteAsync(twinOff, ok, handle))
    /\ twinNow' = twinNow + 1
    /\ UNCHANGED besidesTwin

TwinStreamMessages ==
    /\ At("streamMessages")
    /\ twinNow < MaxTwinNow
    /\ \E reply \in StreamReplies :
          /\ twinOn' = Waiting(twinOn, "streamMessages",
                               OnStreamMessages(twinOn, reply, twinNow + 1))
          /\ twinOff' = Waiting(twinOff, "streamMessages",
                                OnStreamMessages(twinOff, reply, twinNow + 1))
    /\ twinNow' = twinNow + 1
    /\ UNCHANGED besidesTwin

TwinPrompt ==
    /\ At("prompt")
    /\ twinNow < MaxTwinNow
    /\ \E reply \in PromptReplies :
          /\ twinOn' = Waiting(twinOn, "prompt", OnPrompt(twinOn, reply))
          /\ twinOff' = Waiting(twinOff, "prompt", OnPrompt(twinOff, reply))
    /\ twinNow' = twinNow + 1
    /\ UNCHANGED besidesTwin

TwinSendSignal ==
    /\ At("sendSignal")
    /\ twinNow < MaxTwinNow
    /\ \E ok \in BOOLEAN :
          /\ twinOn' = Waiting(twinOn, "sendSignal", OnSendSignal(twinOn, ok))
          /\ twinOff' = Waiting(twinOff, "sendSignal", OnSendSignal(twinOff, ok))
    /\ twinNow' = twinNow + 1
    /\ UNCHANGED besidesTwin

NextTwin ==
    \/ TwinExecuteAsync
    \/ TwinStreamMessages
    \/ TwinPrompt
    \/ TwinSendSignal

SpecTwin == InitTwin /\ [][NextTwin]_<<vars, otherVars>>

(* ----------------------- release notes: main --------------------------- *)
\* disk is a sequence of [path, content] pairs, at most one per path
OutputDirs == {"out", "notes"}
Tags == {"v1", "v2"}
Generated == {"notes A", "notes B"}
\* what executeByName may give: a rejection, no response, a response without
\* a result, or a result
VertesiaResponses == {"rejected", "undefined", "no result"} \cup Generated

\* path.join(outputDir, `release-highlights-${startTag}-${endTag}.md`)
ResultPath(options) ==
    <<options.outputDir, "release-highlights", options.startTag, options.endTag, ".md">>

SuccessMessage(resultPath) == <<"Successfully generated release notes at:", resultPath>>

\* generateReleaseNotesWithVertesia: the result, or "thrown"
GenerateReleaseNotesWithVertesia(response) ==
    IF response \in Generated THEN response ELSE "thrown"

InitNotes ==
    /\ IdleBesidesNotes
    /\ notesPc = "generate"
    /\ notesOptions \in [outputDir : OutputDirs, startTag : Tags, endTag : Tags]
    /\ \E earlier \in {<< >>, <<"old notes">>} :
          notesDisk = [k \in 1..Len(earlier) |->
                          [path |-> ResultPath(notesOptions), content |-> earlier[k]]]
    /\ notesResult = "undefined"
    /\ notesWritten = {}
    /\ notesStdout = << >>
    /\ notesStderr = << >>
    /\ notesExit = 0

\* the try/catch around generateReleaseNotesWithVertesia
NotesGenerate ==
    /\ notesPc = "generate"
    /\ \E response \in VertesiaResponses :
          LET outcome == GenerateReleaseNotesWithVertesia(response)
          IN  IF outcome = "thrown"
              THEN /\ notesStderr' = Append(notesStderr,
                                            "Failed to generate release notes with Vertesia")
                   /\ UNCHANGED <<notesResult, notesStdout>>
              ELSE /\ notesResult' = outcome
                   /\ notesStdout' = Append(notesStdout,
                          <<"Successfully generated release notes with Vertesia">>)
                   /\ UNCHANGED notesStderr
    /\ notesPc' = "save"
    /\ UNCHANGED <<notesOptions, notesDisk, notesWritten, notesExit>>
    /\ UNCHANGED besidesNotes

\* if (result) fs.writeFileSync(resultPath, result); a failed write is caught
\* by main's catch, which exits with 1
NotesSave ==
    /\ notesPc = "save"
    /\ IF notesResult = "undefined"
       THEN /\ notesPc' = "report"
            /\ UNCHANGED <<notesDisk, notesWritten, notesStderr, notesExit>>
       ELSE \E ok \in BOOLEAN :
              IF ok
              THEN /\ notesDisk' = <<[path |-> ResultPath(notesOptions),
                                      content |-> notesResult]>>
                   /\ notesWritten' = notesWritten \cup {ResultPath(notesOptions)}
                   /\ notesPc' = "report"
                   /\ UNCHANGED <<notesStderr, notesExit>>
              ELSE /\ notesStderr' = Append(notesStderr, "Error:")
                   /\ notesExit' = 1
                   /\ notesPc' = "exited"
                   /\ UNCHANGED <<notesDisk, notesWritten>>
    /\ UNCHANGED <<notesOptions, notesResult, notesStdout>>
    /\ UNCHANGED besidesNotes

\* console.log(`Successfully generated release notes at: ${resultPath}`)
NotesReport ==
    /\ notesPc = "report"
    /\ notesStdout' = Append(notesStdout, SuccessMessage(ResultPath(notesOptions)))
    /\ notesPc' = "done"
    /\ UNCHANGED <<notesOptions, notesDisk, notesResult, notesWritten, notesStderr,
                   notesExit>>
    /\ UNCHANGED besidesNotes

NextNotes ==
    \/ NotesGenerate
    \/ NotesSave
    \/ NotesReport

SpecNotes == InitNotes /\ [][NextNotes]_<<vars, otherVars>>

(* ----------------------- invoice line items ---------------------------- *)
MaxPdfPolls == 4
RUNNING == "RUNNING"
COMPLETED == "COMPLETED"
WorkflowExecutionStatuses == {RUNNING, COMPLETED, "FAILED", "TERMINATED", "UNKNOWN"}
Percents == {"undefined", "50"}
StatusResponses == [status : WorkflowExecutionStatuses, percent : Percents]

\* the code a process ends with after process.exit(n)
ExitCodeOf(n) == n % 256

\* while (analysisStatus.status === WorkflowExecutionStatus.RUNNING)
KeepsPolling(response) == response.status = RUNNING

\* Succeeded with a fault: only FAILED counts as a failure
SucceededUnlessFailed(response) == response.status # "FAILED"
\* the negation of analysisStatus.status !== WorkflowExecutionStatus.COMPLETED
Succeeded(response) == response.status = COMPLETED

InitPdf ==
    /\ IdleBesidesPdf
    /\ PdfIdle

\* one round of the do-while: delay, getStatus, printProgress, the loop test,
\* and on leaving the loop the test of the final status; a rejected request
\* ends the script
PdfGetStatus ==
    /\ pdfPc = "poll"
    /\ Len(pdfStatuses) < MaxPdfPolls
    /\ pdfRequests' = Append(pdfRequests, "getStatus")
    /\ \/ /\ pdfPc' = "exited"
          /\ pdfExit' = 1
          /\ UNCHANGED <<pdfStatuses, pdfStdout>>
       \/ \E response \in StatusResponses :
             /\ pdfStatuses' = Append(pdfStatuses, response)
             /\ pdfStdout' = Append(pdfStdout, <<"Progress:", response.percent>>)
             /\ IF KeepsPolling(response)
                THEN UNCHANGED <<pdfPc, pdfExit>>
                ELSE IF Succeeded(response)
                THEN /\ pdfPc' = "adapt"
                     /\ UNCHANGED pdfExit
                ELSE /\ pdfPc' = "exited"
                     /\ pdfExit' = ExitCodeOf(-1)
    /\ UNCHANGED besidesPdf

\* post('/adapt_tables', ...)
PdfAdaptTables ==
    /\ pdfPc = "adapt"
    /\ pdfRequests' = Append(pdfRequests, "adapt_tables")
    /\ \E ok \in BOOLEAN :
          IF ok THEN pdfPc' = "results" /\ UNCHANGED pdfExit
          ELSE pdfPc' = "exited" /\ pdfExit' = 1
    /\ UNCHANGED <<pdfStatuses, pdfStdout>>
    /\ UNCHANGED besidesPdf

\* get(`/adapt_tables/${workflow_run_id}`), then the tables are printed
PdfGetAdaptedTables ==
    /\ pdfPc = "results"
    /\ pdfRequests' = Append(pdfRequests, "get adapt_tables")
    /\ \E ok \in BOOLEAN :
          IF ok THEN pdfPc' = "done" /\ UNCHANGED pdfExit
          ELSE pdfPc' = "exited" /\ pdfExit' = 1
    /\ UNCHANGED <<pdfStatuses, pdfStdout>>
    /\ UNCHANGED besidesPdf

NextPdf ==
    \/ PdfGetStatus
    \/ PdfAdaptTables
    \/ PdfGetAdaptedTables

SpecPdf == InitPdf /\ [][NextPdf]_<<vars, otherVars>>

(* ---------------------------- properties ------------------------------- *)
Last(s) == s[Len(s)]
Range(s) == {s[i] : i \in 1..Len(s)}
Failed(r) == r \in {"Error", "nonError"}
\* kinds that are neither Question, Error, Complete, Idle nor RequestInput
AgentKinds == MessageTypes \ {QUESTION, ERROR, COMPLETE, IDLE, REQUEST_INPUT}
\* the step is a streaming call returning normally (resolving)
StreamResolves ==
    /\ pc = "streaming"
    /\ Len(returns') = Len(returns) + 1
    /\ ~Failed(Last(returns'))
\* the step is one invocation of the streaming callback
CallbackStep == delivered' # delivered

\* C1: when a streamMessages call rejects with an Error, the driver terminates
\* without prompting and without sending a signal, and the process exit code is
\* left non-zero.
C1_StreamErrorExitsNonZero ==
    (returns # << >> /\ Last(returns) = "Error") =>
        /\ pc \notin {"prompting", "signalling", "streaming"}
        /\ prompts = Len(SelectSeq(returns, LAMBDA r : r = "input"))
        /\ Len(SignalCalls) <= prompts
        /\ exitCode # 0

\* C2: whenever a streamMessages call fails, whatever it rejects with, that call
\* is the last streaming call, the driver does not end in Terminal-Done and
\* "Conversation completed" is not printed.
C2_StreamFailureNeverCompletes ==
    \A i \in 1..Len(returns) :
        Failed(returns[i]) =>
            /\ i = Len(returns)
            /\ Len(StreamCalls) = i
            /\ pc \in {"aborted", "error"}
            /\ ~completed

\* C3: every message with non-empty text is rendered exactly once over the whole
\* conversation: none is rendered twice, and none is skipped (when a message is
\* rendered, every message the backend produced before it that carries text has
\* been rendered too).
C3_EveryMessageRenderedOnce ==
    /\ \A i, j \in 1..Len(rendered) : rendered[i] = rendered[j] => i = j
    /\ \A i \in Range(rendered) :
          \A j \in 1..(i - 1) : Renders(log[j]) => j \in Range(rendered)

\* C4: the first streaming call receives since = 0, the since values of
\* successive streaming calls never decrease, and the cursor is assigned only in
\* the step in which a streaming call returns (never while one is in flight,
\* whatever it delivers).
C4_CursorMonotone ==
    /\ [](\A i \in 1..Len(StreamCalls) :
             /\ (i = 1 => StreamCalls[i].since = 0)
             /\ (i > 1 => StreamCalls[i].since >= StreamCalls[i - 1].since))
    /\ [][(since' # since =>
                /\ pc = "streaming"
                /\ pc' # "streaming"
                /\ Len(returns') = Len(returns) + 1
                /\ since' = now)
          /\ (Len(StreamCalls') > Len(StreamCalls) =>
                /\ Len(returns) = Len(StreamCalls)
                /\ Last(StreamCalls').since = since)]_vars
C4_Witness ==
    /\ Len(StreamCalls) = 3
    /\ StreamCalls[2].since > StreamCalls[1].since
    /\ StreamCalls[3].since > StreamCalls[2].since
    /\ Len(delivered) = 3
    /\ delivered[2].call = 2
    /\ delivered[3].call = 2

\* C5: after a streaming call returns, the driver prompts if and only if the
\* reason is "input"; with reason "done" or no reason it leaves the loop without
\* prompting or sending a signal, prints the completion notice and returns
\* normally.
C5_PromptIffInput ==
    [][(StreamResolves =>
            IF Last(returns') = "input"
            THEN /\ pc' = "prompting"
                 /\ prompts' = prompts + 1
                 /\ ~completed'
            ELSE /\ pc' = "done"
                 /\ prompts' = prompts
                 /\ calls' = calls
                 /\ completed'
                 /\ errors' = errors
                 /\ exitCode' = 0)
       /\ (prompts' # prompts => StreamResolves /\ Last(returns') = "input")]_vars
C5_Witness ==
    /\ pc = "done"
    /\ returns = <<"input", "undefined">>
    /\ prompts = 1
    /\ completed

\* C6: the callback ends the streaming call with reason "input" for Idle and
\* RequestInput, with reason "done" for Complete, and does not end it for any
\* other kind; a call that was ended delivers nothing more.
C6_CallbackExitReason ==
    [][(CallbackStep =>
            LET type == log[Last(delivered').index].type
            IN  /\ (type \in {IDLE, REQUEST_INPUT} => streamEndReason' = "input")
                /\ (type = COMPLETE => streamEndReason' = "done")
                /\ (type \in {QUESTION, ERROR, ANSWER, UNKNOWN} =>
                       streamEndReason' = "none"))
       /\ ((pc = "streaming" /\ streamEndReason # "none") =>
            /\ delivered' = delivered
            /\ rendered' = rendered)]_vars
C6_Witness ==
    /\ pc = "streaming"
    /\ Len(delivered) = 2
    /\ log[1].type = ERROR
    /\ log[2].type = REQUEST_INPUT
    /\ streamEndReason = "input"

\* C7: each accepted input is sent exactly once as the signal "UserInput",
\* addressed by the workflowId and runId of the handle executeAsync returned,
\* with the accepted text as message, and the backend call that follows a signal
\* is a streamMessages call for the same runId.
C7_SignalPerAcceptedInput ==
    /\ Len(SignalCalls) = Len(accepted)
    /\ \A i \in 1..Len(accepted) :
          SignalCalls[i] = [op |-> "sendSignal", workflowId |-> run.workflowId,
                            runId |-> run.runId, signal |-> "UserInput",
                            message |-> accepted[i]]
    /\ (accepted # << >> => run \in RunHandles /\ calls[2].runId = run.runId)
    /\ \A j \in 1..(Len(calls) - 1) :
          calls[j].op = "sendSignal" =>
              /\ calls[j + 1].op = "streamMessages"
              /\ calls[j + 1].runId = calls[j].runId
C7_Witness ==
    /\ Len(accepted) = 2
    /\ accepted[1] = <<" ", "y">>
    /\ Last(calls).op = "streamMessages"
    /\ Len(StreamCalls) = 3

\* C8: when the first k streaming calls end with reason "input" and the next
\* one ends with Complete, the driver has prompted k times, sent k signals (one
\* after each prompt, with its text), made k + 1 streaming calls, and is in
\* Terminal-Done.
C8_InputRoundTrips ==
    LET n == Len(returns)
    IN  (/\ n >= 1
         /\ returns[n] = "done"
         /\ \A i \in 1..(n - 1) : returns[i] = "input") =>
            /\ prompts = n - 1
            /\ Len(accepted) = n - 1
            /\ Len(SignalCalls) = n - 1
            /\ Len(StreamCalls) = n
            /\ Len(calls) = 2 * n
            /\ \A i \in 1..(n - 1) :
                  /\ calls[2 * i + 1].op = "sendSignal"
                  /\ calls[2 * i + 1].message = accepted[i]
                  /\ calls[2 * i + 2].op = "streamMessages"
            /\ pc = "done"
            /\ completed
            /\ exitCode = 0
C8_Witness ==
    /\ returns = <<"input", "input", "done">>
    /\ pc = "done"
    /\ prompts = 2

\* C9: when the first streaming call delivers only Agent-kind messages followed
\* by a Complete message, there is exactly one streaming call, every delivered
\* message with non-empty text is rendered (the Complete one included), no
\* prompt is opened, no signal is sent, and the driver is in Terminal-Done.
C9_CompleteOnFirstCall ==
    LET first == SelectSeq(delivered, LAMBDA d : d.call = 1)
        n == Len(first)
    IN  (/\ Len(returns) >= 1
         /\ returns[1] = "done"
         /\ \A k \in 1..(n - 1) : log[first[k].index].type \in AgentKinds) =>
            /\ n >= 1
            /\ log[first[n].index].type = COMPLETE
            /\ Len(StreamCalls) = 1
            /\ LET shown == SelectSeq(first, LAMBDA d : log[d.index].message # "")
               IN  rendered = [k \in 1..Len(shown) |-> shown[k].index]
            /\ prompts = 0
            /\ SignalCalls = << >>
            /\ pc = "done"
            /\ completed
C9_Witness ==
    /\ returns = <<"done">>
    /\ Len(delivered) = 3
    /\ log[1].type = UNKNOWN /\ log[1].message = "hi"
    /\ log[2].type = ANSWER /\ log[2].message = ""
    /\ log[3].type = COMPLETE /\ log[3].message = "hi"
    /\ rendered = <<1, 3>>
    /\ pc = "done"

\* C10: when executeAsync fails, the error is reported, the exit code is set
\* non-zero, and no streamMessages call, prompt or sendSignal call is made.
C10_StartFailure ==
    (run = NoRun /\ pc \notin {"init", "executing"}) =>
        /\ pc = "error"
        /\ errors = <<"Error during conversation:">>
        /\ exitCode = 1
        /\ Len(calls) = 1
        /\ calls[1].op = "executeAsync"
        /\ prompts = 0
        /\ ~completed
C10_Witness ==
    /\ run = NoRun
    /\ pc = "error"
    /\ exitCode = 1

\* the delivery d handed the callback a message of kind ERROR
ErrorDelivered(d) == log[d.index].type = ERROR

\* C11: an Error-kind message delivered through streaming is rendered, and its
\* delivery neither ends the streaming call nor terminates the loop nor sets a
\* failing exit code; no call that delivered an Error message last returns
\* "input" or "done" because of it.
C11_ErrorMessageDoesNotEnd ==
    /\ [][(CallbackStep /\ ErrorDelivered(Last(delivered'))) =>
            /\ pc' = "streaming"
            /\ streamEndReason' = "none"
            /\ conversationActive' = conversationActive
            /\ Len(returns') = Len(returns)
            /\ exitCode' = exitCode
            /\ errors' = errors
            /\ completed' = completed
            /\ (log[Last(delivered').index].message # "" =>
                  rendered' = Append(rendered, Last(delivered').index))]_vars
    /\ [][(StreamResolves /\ delivered # << >>
                          /\ Last(delivered).call = Len(returns')
                          /\ ErrorDelivered(Last(delivered))) =>
            Last(returns') = "undefined"]_vars
C11_Witness ==
    /\ pc = "streaming"
    /\ Len(delivered) = 2
    /\ delivered[1].call = 1 /\ delivered[2].call = 1
    /\ ErrorDelivered(delivered[1])
    /\ log[delivered[2].index].type = ANSWER
    /\ rendered = <<1, 2>>
    /\ exitCode = 0

\* the prompt or the signal that followed it has failed
BoundaryFailure ==
    \/ prompts > Len(accepted) /\ pc # "prompting"
    \/ calls # << >> /\ Last(calls).op = "sendSignal" /\ inFlight = {}

\* C12: when the user prompt or sendSignal fails, the driver makes no further
\* streaming call, prompt or signal, does not print the completion notice, and
\* leaves the exit code non-zero.
C12_PromptOrSignalFailure ==
    /\ [](BoundaryFailure =>
            /\ exitCode # 0
            /\ ~completed
            /\ errors # << >>
            /\ Last(errors) = "Error during conversation:")
    /\ [][BoundaryFailure =>
            /\ calls' = calls
            /\ prompts' = prompts
            /\ accepted' = accepted
            /\ completed' = completed]_vars
C12_Witness ==
    /\ Len(SignalCalls) = 2
    /\ Last(calls).op = "sendSignal"
    /\ inFlight = {}
    /\ exitCode = 1
    /\ ~completed

\* C13: at most one backend call (executeAsync, streamMessages, sendSignal) is
\* in flight at any time, and none is in flight while the prompt waits for the
\* user.
C13_OneCallInFlight ==
    /\ Cardinality(inFlight) <= 1
    /\ (pc = "prompting" => inFlight = {})
C13_Witness ==
    /\ Len(calls) = 4
    /\ inFlight = {4}
    /\ calls[3].op = "sendSignal"
    /\ calls[4].op = "streamMessages"
    /\ prompts = 1

\* a line made of white space only (the empty line included)
Blank(line) == \A i \in 1..Len(line) : line[i] \in {" ", "\t"}

\* C14: the prompt rejects every empty or white-space-only line and asks again,
\* accepts only a line holding a non-white-space character, accepts exactly one
\* line per prompt (the first such line), and no signal is sent before a line
\* is accepted.
C14_PromptAcceptsNonBlank ==
    /\ [](/\ \A line \in Range(attempts) : Blank(line)
          /\ \A line \in Range(accepted) : ~Blank(line)
          /\ Len(SignalCalls) = Len(accepted)
          /\ Len(accepted) <= prompts
          /\ (pc = "prompting" => Len(accepted) = prompts - 1)
          /\ (pc # "prompting" => attempts = << >>))
    /\ [][(pc = "prompting" /\ attempts' # attempts /\ pc' = "prompting") =>
            /\ \E line \in UserInputs : Blank(line) /\ attempts' = Append(attempts, line)
            /\ calls' = calls
            /\ accepted' = accepted
            /\ prompts' = prompts]_vars
    /\ [][accepted' # accepted =>
            /\ pc = "prompting"
            /\ \E line \in UserInputs : ~Blank(line) /\ accepted' = Append(accepted, line)
            /\ Len(SignalCalls') = Len(SignalCalls) + 1
            /\ Last(calls').message = Last(accepted')]_vars
C14_Witness ==
    /\ pc = "signalling"
    /\ prompts = 2
    /\ accepted = <<<<"o", "k">>, <<" ", "y">>>>
    /\ Len(SignalCalls) = 2

\* the places where `text` holds word:<id>, whatever surrounds it
TokenStarts(text, word) ==
    {i \in 1..Len(text) :
        /\ HasPrefixAt(text, i, word \o <<":">>)
        /\ i + Len(word) + 1 <= Len(text)
        /\ text[i + Len(word) + 1] \in IdChars}
\* the end of the longest run of id characters from index j on
RunEnd(text, j) ==
    CHOOSE e \in (j - 1)..Len(text) :
        /\ \A k \in j..e : text[k] \in IdChars
        /\ (e = Len(text) \/ text[e + 1] \notin IdChars)
RECURSIVE Ordered(_)
Ordered(S) ==
    IF S = {} THEN << >>
    ELSE LET m == CHOOSE x \in S : \A y \in S : x <= y
         IN  <<m>> \o Ordered(S \ {m})
\* what follows in `text` each occurrence of one of the two leads, left to right
Occurrences(text, storeLead, collectionLead, storeStarts, collectionStarts) ==
    LET at == Ordered(storeStarts \cup collectionStarts)
    IN  [k \in 1..Len(at) |->
            LET lead == IF at[k] \in storeStarts THEN storeLead ELSE collectionLead
            IN  [kind |-> IF at[k] \in storeStarts THEN "object" ELSE "collection",
                 id |-> SubSeq(text, at[k] + Len(lead),
                               RunEnd(text, at[k] + Len(lead)))]]
\* the tokens of a text: kind and id, left to right
TokensOf(text) ==
    Occurrences(text, StoreWord \o <<":">>, CollectionWord \o <<":">>,
                TokenStarts(text, StoreWord), TokenStarts(text, CollectionWord))
\* the UI domain the documentation gives for a site
ExpectedDomain(s) ==
    CASE s = "api-preview.vertesia.io" -> <<"p", "r", "e", "v", "i", "e", "w", ".", "c", "l", "o", "u", "d", ".", "v", "e", "r", "t", "e", "s", "i", "a", ".", "i", "o">>
      [] s = "api-staging.vertesia.io" -> <<"s", "t", "a", "g", "i", "n", "g", ".", "c", "l", "o", "u", "d", ".", "v", "e", "r", "t", "e", "s", "i", "a", ".", "i", "o">>
      [] OTHER -> <<"c", "l", "o", "u", "d", ".", "v", "e", "r", "t", "e", "s", "i", "a", ".", "i", "o">>
ExpectedObjectUrl(s) == <<"h", "t", "t", "p", "s", ":", "/", "/">> \o ExpectedDomain(s) \o <<"/", "s", "t", "o", "r", "e", "/", "o", "b", "j", "e", "c", "t", "s", "/">>
ExpectedCollectionUrl(s) == <<"h", "t", "t", "p", "s", ":", "/", "/">> \o ExpectedDomain(s) \o <<"/", "s", "t", "o", "r", "e", "/", "c", "o", "l", "l", "e", "c", "t", "i", "o", "n", "s", "/">>
UrlStarts(text, lead) ==
    {i \in 1..Len(text) :
        /\ HasPrefixAt(text, i, lead)
        /\ i + Len(lead) <= Len(text)
        /\ text[i + Len(lead)] \in IdChars}
\* the URLs of a text: kind and id, left to right
UrlsOf(text, s) ==
    Occurrences(text, ExpectedObjectUrl(s), ExpectedCollectionUrl(s),
                UrlStarts(text, ExpectedObjectUrl(s)),
                UrlStarts(text, ExpectedCollectionUrl(s)))
\* out is the input with every token turned into its URL
Rewritten(input, out, s) ==
    /\ TokenStarts(out, StoreWord) = {}
    /\ TokenStarts(out, CollectionWord) = {}
    /\ UrlsOf(out, s) = TokensOf(input)
    /\ Len(out) = Len(input)
          + Cardinality(TokenStarts(input, StoreWord))
              * (Len(ExpectedObjectUrl(s)) - Len(StoreWord) - 1)
          + Cardinality(TokenStarts(input, CollectionWord))
              * (Len(ExpectedCollectionUrl(s)) - Len(CollectionWord) - 1)
\* no token of the text is directly followed by ":" and a further id character
Isolated(text) ==
    \A word \in {StoreWord, CollectionWord} :
        \A i \in TokenStarts(text, word) :
            LET e == RunEnd(text, i + Len(word) + 1)
            IN  ~(e + 2 <= Len(text) /\ text[e + 1] = ":" /\ text[e + 2] \in IdChars)

\* C15 as stated: for every text, the output of transformStoreLinks holds no raw
\* store:<id> or collection:<id> token and one URL per token of the input, on
\* the UI domain of the site.
C15_EveryTextRewritten ==
    transformed # << >> => Rewritten(message, transformed[1], site)
\* C15, amended: for every text in which no token is directly followed by ":"
\* and a further id character, the output of transformStoreLinks holds no raw
\* token and exactly one URL per token of the input, with the token's id, in the
\* order of the tokens, on preview.cloud.vertesia.io for api-preview.vertesia.io,
\* staging.cloud.vertesia.io for api-staging.vertesia.io, cloud.vertesia.io for
\* any other or unset site.
C15_IsolatedTokensRewritten ==
    (transformed # << >> /\ Isolated(message)) =>
        Rewritten(message, transformed[1], site)
C15_Witness ==
    /\ site = "api-staging.vertesia.io"
    /\ message = StoreWord \o <<":", "a", " ">> \o CollectionWord \o <<":", "Z", "9", "-">>
    /\ transformed = << ExpectedObjectUrl(site) \o <<"a", " ">>
                          \o ExpectedCollectionUrl(site) \o <<"Z", "9", "-">> >>

\* the text matches neither pattern
NoMatch(text) ==
    /\ MatchSpans(text, StoreWord, 1) = << >>
    /\ MatchSpans(text, CollectionWord, 1) = << >>
Idempotent(out, s) ==
    /\ NoMatch(out)
    /\ TransformStoreLinks(out, s) = out

\* C16 as stated: for every input text the output of transformStoreLinks
\* matches neither pattern, and transformStoreLinks returns it unchanged.
C16_IdempotentOnEveryText ==
    transformed # << >> => Idempotent(transformed[1], site)
\* C16, amended: for every input text in which no token is directly followed
\* by ":" and a further id character, the output of transformStoreLinks matches
\* neither pattern, and transformStoreLinks returns it unchanged.
C16_IdempotentOnIsolatedTokens ==
    (transformed # << >> /\ Isolated(message)) => Idempotent(transformed[1], site)
C16_Witness ==
    /\ message = StoreWord \o <<":", "a", "_">> \o StoreWord \o <<":", "a">>
    /\ transformed # << >>
    /\ transformed[1] # message
    /\ TransformStoreLinks(transformed[1], site) = transformed[1]

\* two spans <<first, last>> share no index
Apart(a, b) == a[2] < b[1] \/ b[2] < a[1]
\* the span of every token of the text
TokenSpans(text, word) ==
    {<<i, RunEnd(text, i + Len(word) + 1)>> : i \in TokenStarts(text, word)}
\* where the URLs the store pass wrote lie in its output
StoreUrlSpans(text, s) ==
    LET spans == MatchSpans(text, StoreWord, 1)
        delta == Len(StoreUrlPrefix(s)) - Len(StoreWord) - 1
    IN  { <<spans[k][1] + (k - 1) * delta, spans[k][2] + k * delta>> :
            k \in 1..Len(spans) }
Independent(text, s) ==
    LET rewritten == StorePass(text, s)
        urls == StoreUrlSpans(text, s)
        collectionMatches == MatchSpans(rewritten, CollectionWord, 1)
        storeMatches == MatchSpans(text, StoreWord, 1)
    IN  /\ \A u \in urls : HasPrefixAt(rewritten, u[1], ExpectedObjectUrl(s))
        /\ \A u \in urls : \A k \in 1..Len(collectionMatches) :
              Apart(u, collectionMatches[k])
        /\ \A u \in urls :
              LET before == {k \in 1..Len(collectionMatches) :
                                collectionMatches[k][2] < u[1]}
                  shift == Cardinality(before)
                             * (Len(CollectionUrlPrefix(s)) - Len(CollectionWord) - 1)
              IN  SubSeq(CollectionPass(rewritten, s), u[1] + shift, u[2] + shift)
                    = SubSeq(rewritten, u[1], u[2])
        /\ \A k \in 1..Len(storeMatches) : \A t \in TokenSpans(text, CollectionWord) :
              Apart(storeMatches[k], t)

\* C17 as stated: for every input text, the collection pass changes no
\* character of a URL the store pass produced, and the store pass consumes no
\* part of a collection:<id> token.
C17_PassesIndependentOnEveryText ==
    transformed # << >> => Independent(message, site)
\* C17, amended: for every input text in which no token is directly followed
\* by ":" and a further id character, the collection pass changes no character
\* of a URL the store pass produced, and the store pass consumes no part of a
\* collection:<id> token.
C17_PassesIndependentOnIsolatedTokens ==
    (transformed # << >> /\ Isolated(message)) => Independent(message, site)
C17_Witness ==
    /\ message = CollectionWord \o <<":", "a", "_">> \o StoreWord \o <<":", "a">>
    /\ transformed # << >>
    /\ Len(MatchSpans(message, StoreWord, 1)) = 1
    /\ Len(MatchSpans(StorePass(message, site), CollectionWord, 1)) = 1
    /\ Independent(message, site)

\* the label the documentation gives for a kind
ExpectedLabel(type) ==
    CASE type = QUESTION -> "User:"
      [] type = ERROR -> "Error:"
      [] type = COMPLETE -> "Complete:"
      [] type = IDLE -> "Idle:"
      [] OTHER -> "Agent:"

\* C18: formatMessage prints exactly one label line, before the body, and its
\* label is "User:" for Question, "Error:" for Error, "Complete:" for Complete,
\* "Idle:" for Idle and "Agent:" for every other kind.
C18_LabelMappingTotal ==
    stdout # << >> =>
        /\ Len(SelectSeq(stdout, LAMBDA l : l.line = "label")) = 1
        /\ stdout[1].line = "label"
        /\ stdout[1].typeColor.label = ExpectedLabel(args.type)
        /\ \A k \in 2..Len(stdout) : stdout[k].line = "body"
C18_Witness ==
    /\ args.type = UNKNOWN
    /\ Len(stdout) = 2
    /\ stdout[1].typeColor.label = "Agent:"
    /\ stdout[2].line = "body"

\* C19: formatMessage prints the text as it came, neither rewritten nor
\* rendered as markdown, exactly when the kind is Question, Idle or Error; for
\* every other kind it prints the markdown rendering of what transformStoreLinks
\* returns for the text.
C19_VerbatimIffPlainKind ==
    stdout # << >> =>
        LET body == SelectSeq(stdout, LAMBDA l : l.line = "body")
        IN  /\ Len(body) = 1
            /\ IF args.type \in {QUESTION, IDLE, ERROR}
               THEN /\ body[1].value.renderer = "none"
                    /\ body[1].value.source = message \o <<"\n">>
               ELSE /\ body[1].value.renderer = "marked"
                    /\ body[1].value.source = TransformStoreLinks(message, site)
C19_Witness ==
    /\ args.type = COMPLETE
    /\ message = StoreWord \o <<":", "a">>
    /\ site = "api-preview.vertesia.io"
    /\ Len(stdout) = 2
    /\ stdout[2].value = [renderer |-> "marked",
                          source |-> ExpectedObjectUrl(site) \o <<"a">>]

\* C20: the combined token count of the two texts reduceContentToTokenLimit
\* returns is at most targetTokenLimit, for every input.
C20_WithinTokenLimit ==
    reduced # << >> =>
        CountTokens(IssuesLength(reduced[1].issues))
          + CountTokens(DiffsLength(reduced[1].diffs)) <= targetTokenLimit

\* the step in which a run loads the cache, and the step in which it fetches
LoadStep == fetchPc # "fetching" /\ fetchPc' = "fetching"
FetchStep == fetchPc = "fetching" /\ fetchPc' = "returned"
\* the cache file is of the repository and less than 24 hours old at time t
Usable(file, repository, t) ==
    /\ file.exists
    /\ file.repository = repository
    /\ t - file.timestamp < 24

\* C21: with a usable cache (same owner/repo, less than 24 hours old), every
\* requested number the cache holds is returned from the cache and never asked
\* of GitHub, and exactly the numbers it does not hold are fetched; with no
\* usable cache every requested number is fetched.
C21_CachedIssuesNotFetched ==
    /\ [][LoadStep =>
            LET usable == Usable(cacheFile, request'.repository, clock)
                held == IF usable THEN cacheFile.issues ELSE {}
            IN  /\ issuesOut' = {i \in held : i.number \in request'.issueNumbers}
                /\ issuesToFetch' = request'.issueNumbers \ NumbersOf(held)
                /\ requested' = {}]_<<vars, otherVars>>
    /\ [][FetchStep =>
            /\ requested' = issuesToFetch
            /\ issuesOut \subseteq issuesOut'
            /\ NumbersOf(issuesOut' \ issuesOut) \subseteq issuesToFetch]_<<vars, otherVars>>
C21_Witness ==
    /\ fetchPc = "returned"
    /\ clock = 12
    /\ request.issueNumbers = {1, 2}
    /\ requested = {2}
    /\ issuesOut = {[number |-> 1, fetchedAt |-> 0], [number |-> 2, fetchedAt |-> 12]}

\* C28: an issue is served from the cache only while less than 24 hours have
\* passed since GitHub returned it.
C28_CachedIssueYoungerThanADay ==
    [][LoadStep => \A i \in issuesOut' : clock - i.fetchedAt < 24]_<<vars, otherVars>>

\* the operations requested so far, in order
OpsOf(callSeq) == [k \in 1..Len(callSeq) |-> callSeq[k].op]

\* C22: the OIDC provider is created only if it does not exist: on an account
\* where it exists, no create request is sent for it and the script goes on to
\* create the environment and the role.
C22_ProviderCreatedOnlyIfAbsent ==
    /\ \A k \in 1..Len(bedrockCalls) :
          bedrockCalls[k].op = "CreateOpenIDConnectProvider" =>
              ~bedrockCalls[k].detail.existed
    /\ (bedrockArgs.providerExisted /\ bedrockPc = "failed") =>
          Last(bedrockCalls).op # "CreateOpenIDConnectProvider"

\* C25: environments.update is called, with the role ARN, only after the OIDC
\* provider was created, the environment was created, the role was created
\* with a trust condition naming that environment's id, and the Bedrock policy
\* was attached, in this order; after a failed step neither environments.update
\* nor listModels is called, and nothing created is ever removed.
C25_UpdateAfterAllSteps ==
    /\ [](\A k \in 1..Len(bedrockCalls) :
            bedrockCalls[k].op = "environments.update" =>
              /\ OpsOf(SubSeq(bedrockCalls, 1, k)) =
                    <<"account.info", "projects.list", "CreateOpenIDConnectProvider",
                      "environments.create", "CreateRole", "AttachRolePolicy",
                      "environments.update">>
              /\ \A j \in 1..(k - 1) : bedrockCalls[j].ok
              /\ VERTESIA_PROVIDER_URL \in iam.providers
              /\ bedrockCalls[k].detail.id \in {e.id : e \in environments}
              /\ bedrockCalls[k].detail.apiKey = <<"arn", bedrockArgs.roleName>>
              /\ \E r \in iam.roles :
                    /\ r.name = bedrockArgs.roleName
                    /\ r.condition[3] = bedrockCalls[k].detail.id
                    /\ r.condition[2] = bedrockLocals.account
                    /\ BedrockPolicy \in r.policies)
    /\ [](\A k \in 1..Len(bedrockCalls) :
            ~bedrockCalls[k].ok => k = Len(bedrockCalls))
    /\ [](\A k \in 1..Len(bedrockCalls) :
            bedrockCalls[k].op = "environments.listModels" =>
                k > 1 /\ bedrockCalls[k - 1].op = "environments.update")
    /\ [](bedrockPc = "exited" =>
            \A k \in 1..Len(bedrockCalls) :
                bedrockCalls[k].op \notin {"environments.update",
                                           "environments.listModels"})
    /\ [][/\ iam.providers \subseteq iam'.providers
          /\ {r.name : r \in iam.roles} \subseteq {r.name : r \in iam'.roles}
          /\ {e.id : e \in environments} \subseteq {e.id : e \in environments'}
          /\ (bedrockPc \in {"failed", "exited", "done"} =>
                bedrockCalls' = bedrockCalls)]_<<vars, otherVars>>
C25_Witness ==
    /\ bedrockPc = "models"
    /\ Len(bedrockCalls) = 7
    /\ bedrockLocals.account = "org2"
    /\ \E e \in environments : e.id = "e2" /\ e.apiKey = <<"arn", "r2">>
    /\ \E r \in iam.roles : r.name = "r2" /\ r.condition = <<"env", "org2", "e2">>

\* the requests of one kind sent so far
RequestsOf(op) == {k \in 1..Len(gcpRequests) : gcpRequests[k].op = op}
Ended == gcpPc \in {"returned", "failed"}

\* C23: get-or-create. A successful lookup returns the existing resource and
\* sends no create request; a 404 sends exactly one create request, the
\* operation is then awaited and the details fetched afterwards are returned;
\* any other lookup failure propagates and sends no create request.
C23_GetOrCreate ==
    Len(gcpRequests) > 0 =>
        LET lookup == gcpRequests[1].answer
        IN  /\ lookup = "found" =>
                  /\ RequestsOf("create") = {}
                  /\ gcpPc = "returned" /\ gcpResult.returned = "existing"
            /\ lookup \notin {"found", "404"} =>
                  /\ RequestsOf("create") = {}
                  /\ gcpPc = "failed" /\ gcpResult.thrown # ""
            /\ (lookup = "404" /\ gcpPc # "create") =>
                  /\ Cardinality(RequestsOf("create")) = 1
                  /\ (Ended /\ gcpRequests[2].answer = "ok") =>
                        RequestsOf("operation") # {}
                  /\ gcpPc = "returned" =>
                        /\ Last(gcpRequests) = GcpRequest("details", "ok")
                        /\ gcpResult.returned = "created"

\* C24: waitForOperation polls at most 5 times, pausing 3000 ms before the
\* first poll and twice as long before each next one; an operation still not
\* done then makes it return false and the caller throw "takes too long".
C24_AtMostFivePolls ==
    /\ gcpWait.polls <= MaxTries
    /\ (gcpPc = "wait" /\ gcpWait.polls = MaxTries) => gcpWait.status
    /\ gcpDone = <<FALSE>> => gcpResult.thrown = "takes too long"

\* a client exists only for a key and an environment in keys and hosts, and
\* otherwise the process has exited with 1 before any backend call; the
\* renderer has read only the hosts' values
ClientOnlyFor(keys, hosts) ==
    /\ clientPc = "running" =>
          /\ processEnv.VERTESIA_API_KEY \in keys
          /\ processEnv.VERTESIA_ENVIRONMENT \in hosts
    /\ clientPc = "running" =>
          /\ client.apikey = processEnv.VERTESIA_API_KEY
          /\ client.site \in AllowedSites
          /\ processEnv.VERTESIA_ENVIRONMENT \in AllowedSites =>
                client.site = processEnv.VERTESIA_ENVIRONMENT
          /\ processEnv.VERTESIA_ENVIRONMENT \notin AllowedSites =>
                client.site = "api.vertesia.io"
    /\ clientPc = "exited" => clientExit = 1 /\ backendCalls = 0 /\ client = NoClient
    /\ clientPc # "running" => sitesRead = {}
    /\ sitesRead \subseteq hosts

C27_FlagOnlyInStartRequest ==
    /\ twinOn.start.interactive /\ ~twinOff.start.interactive
    /\ twinOn.trace = twinOff.trace
    /\ twinOn.pc = twinOff.pc
    /\ twinOn.since = twinOff.since
    /\ twinOn.exitCode = twinOff.exitCode
    /\ twinOn.completed = twinOff.completed
C27_Witness ==
    /\ Len(twinOff.trace) = 4
    /\ twinOff.trace[2] = [op |-> "prompt"]
    /\ twinOff.trace[3].op = "sendSignal"
    /\ twinOff.trace[4].op = "streamMessages" /\ twinOff.trace[4].since > 0
    /\ ~twinOff.start.interactive

\* the paths the success message was printed for
Reported ==
    {notesStdout[k][2] : k \in {j \in 1..Len(notesStdout) :
                                    notesStdout[j][1] = SuccessMessage(<< >>)[1]}}
GenerationFailed ==
    \E k \in 1..Len(notesStderr) :
        notesStderr[k] = "Failed to generate release notes with Vertesia"

\* C29: "Successfully generated release notes at: <path>" is printed only if
\* the release-highlights file was written at that path in this run; when the
\* generation fails, no file is written and no success message is printed.
C29_SuccessOnlyAfterWrite ==
    /\ Reported \subseteq notesWritten
    /\ GenerationFailed => notesWritten = {} /\ Reported = {}

\* the requests sent after the status loop
AfterPolling == {k \in 1..Len(pdfRequests) : pdfRequests[k] # "getStatus"}

\* C30: the status is polled at least once and polling goes on exactly while
\* the status is RUNNING; adapt_tables is requested only if the first status
\* that is not RUNNING is COMPLETED, and any other final status ends the
\* process with a failure code and no further request.
C30_PollWhileRunning ==
    /\ pdfPc # "poll" => pdfRequests # << >> /\ pdfRequests[1] = "getStatus"
    /\ \A k \in 1..Len(pdfStatuses) :
          /\ k < Len(pdfStatuses) => pdfStatuses[k].status = RUNNING
          /\ pdfRequests[k] = "getStatus"
    /\ (pdfPc = "poll" /\ pdfStatuses # << >>) => Last(pdfStatuses).status = RUNNING
    /\ (pdfPc # "poll" /\ Len(pdfRequests) = Len(pdfStatuses)) =>
          Last(pdfStatuses).status # RUNNING
    /\ AfterPolling # {} =>
          /\ pdfStatuses # << >> /\ Last(pdfStatuses).status = COMPLETED
          /\ \A k \in AfterPolling : k > Len(pdfStatuses)
    /\ (pdfStatuses # << >> /\ Last(pdfStatuses).status \notin {RUNNING, COMPLETED}) =>
          /\ pdfPc = "exited" /\ pdfExit # 0
          /\ Len(pdfRequests) = Len(pdfStatuses)
C30_Witness ==
    /\ Len(pdfStatuses) = 3
    /\ pdfStatuses[1].status = RUNNING /\ pdfStatuses[2].status = RUNNING
    /\ pdfStatuses[3].status = COMPLETED
    /\ pdfRequests = <<"getStatus", "getStatus", "getStatus", "adapt_tables">>

====
